---------------------------- MODULE Spec2Model ----------------------------
(***************************************************************************)
(* Model of rysafe: the HTML/XML escaper, the entity decoder and the       *)
(* Markup safe-string type with its composition operations.                *)
(*                                                                         *)
(* Text is a sequence of characters; a character is a one-element string   *)
(* ("<", "a") or, for a non-ASCII scalar value, its name "U+" followed by  *)
(* the decimal code point ("U+233" is e-acute, "U+65533" the replacement   *)
(* character).                                                             *)
(* A byte sequence is a sequence of integers 0..255.                       *)
(* A Python value is a record [kind, text, bytes, n]:                      *)
(*   kind = "str"    plain text                                            *)
(*   kind = "markup" Markup instance (str subclass, has __html__)          *)
(*   kind = "html"   non-str object whose __html__() returns text          *)
(*   kind = "bytes"  the byte sequence bytes                               *)
(*   kind = "none"   None                                                  *)
(*   kind = "int"    the integer n                                         *)
(*   kind = "bool"   True (n = 1) or False (n = 0)                         *)
(*   kind = "raise"  an exception left the call; text names its type       *)
(***************************************************************************)
EXTENDS Integers, Sequences, FiniteSets, TLC

VARIABLES op, arg, prev, res, self, args

vars == <<op, arg, prev, res, self, args>>

-----------------------------------------------------------------------------
(* Bounds *)

\* number of tokens concatenated into an input text
MaxTokens == 2

\* number of bytes in a byte-sequence input
MaxBytes == 2

\* largest magnitude of an integer input
MaxInt == 12

\* longest Markup text that is composed further
MaxLen == 5

\* number of items joined, or of arguments formatted, in one call
MaxItems == 2

-----------------------------------------------------------------------------
(* Generic sequence helpers *)

RECURSIVE Flatten(_)
Flatten(ss) == IF ss = <<>> THEN <<>> ELSE Head(ss) \o Flatten(Tail(ss))

\* s starts with prefix p at position i (1-based)
StartsAt(s, i, p) ==
    /\ i >= 1
    /\ i + Len(p) - 1 <= Len(s)
    /\ \A k \in 1..Len(p) : s[i + k - 1] = p[k]

Contains(s, p) == \E i \in 1..(Len(s) + 1) : StartsAt(s, i, p)

RECURSIVE SeqsUpTo(_, _)
SeqsUpTo(S, n) ==
    IF n = 0 THEN { <<>> }
    ELSE LET shorter == SeqsUpTo(S, n - 1)
         IN  shorter \cup { <<x>> \o s : x \in S, s \in { t \in shorter : Len(t) = n - 1 } }

-----------------------------------------------------------------------------
(* Values *)

Str(t)     == [kind |-> "str",    text |-> t,    bytes |-> <<>>, n |-> 0]
Mk(t)      == [kind |-> "markup", text |-> t,    bytes |-> <<>>, n |-> 0]
HtmlObj(t) == [kind |-> "html",   text |-> t,    bytes |-> <<>>, n |-> 0]
Bytes(b)   == [kind |-> "bytes",  text |-> <<>>, bytes |-> b,    n |-> 0]
None       == [kind |-> "none",   text |-> <<>>, bytes |-> <<>>, n |-> 0]
IntVal(i)  == [kind |-> "int",    text |-> <<>>, bytes |-> <<>>, n |-> i]
Bool(b)    == [kind |-> "bool",   text |-> <<>>, bytes |-> <<>>, n |-> IF b THEN 1 ELSE 0]
Raise(e)   == [kind |-> "raise",  text |-> <<e>>, bytes |-> <<>>, n |-> 0]

-----------------------------------------------------------------------------
(* Characters and code points *)

\* the printable ASCII characters, code points 32..126 in order (the grave
\* accent, 96, is written by its name)
AsciiChars ==
    << " ", "!", "\"", "#", "$", "%", "&", "'", "(", ")", "*", "+", ",", "-", ".", "/",
       "0", "1", "2", "3", "4", "5", "6", "7", "8", "9", ":", ";", "<", "=", ">", "?",
       "@", "A", "B", "C", "D", "E", "F", "G", "H", "I", "J", "K", "L", "M", "N", "O",
       "P", "Q", "R", "S", "T", "U", "V", "W", "X", "Y", "Z", "[", "\\", "]", "^", "_",
       "U+96", "a", "b", "c", "d", "e", "f", "g", "h", "i", "j", "k", "l", "m", "n", "o",
       "p", "q", "r", "s", "t", "u", "v", "w", "x", "y", "z", "{", "|", "}", "~" >>

\* chr(): the character with code point n
Chr(n) == IF n \in 32..126 THEN AsciiChars[n - 31] ELSE "U+" \o ToString(n)

ReplacementChar == Chr(65533)

\* ord(): the code point of character c (0 for a character outside the model's universe)
Ord(c) ==
    IF \E k \in 1..Len(AsciiChars) : AsciiChars[k] = c
    THEN 31 + (CHOOSE k \in 1..Len(AsciiChars) : AsciiChars[k] = c)
    ELSE IF \E n \in {169, 172, 233, 8226, 8364, 65533} : Chr(n) = c
         THEN CHOOSE n \in {169, 172, 233, 8226, 8364, 65533} : Chr(n) = c
         ELSE 0

DecDigits == <<"0", "1", "2", "3", "4", "5", "6", "7", "8", "9">>
HexDigitsLower == DecDigits \o <<"a", "b", "c", "d", "e", "f">>

RECURSIVE NatToStr(_)
NatToStr(n) ==
    IF n < 10 THEN << DecDigits[n + 1] >>
    ELSE NatToStr(n \div 10) \o << DecDigits[(n % 10) + 1] >>

\* str(int)
IntToStr(i) == IF i < 0 THEN <<"-">> \o NatToStr(0 - i) ELSE NatToStr(i)

-----------------------------------------------------------------------------
(* Python conversions: bytes.decode("utf-8", "replace"), str.encode("utf-8"),
   repr(bytes), str(object) *)

IsCont(b) == b \in 128..191

\* continuation bytes announced by a lead byte; -1 when the byte cannot start a sequence
Utf8Need(b) ==
    IF b < 128 THEN 0
    ELSE IF b \in 194..223 THEN 1
    ELSE IF b \in 224..239 THEN 2
    ELSE IF b \in 240..244 THEN 3
    ELSE -1

\* the second byte of a sequence has a narrower range after some leads
SecondOk(lead, b) ==
    CASE lead = 224 -> b \in 160..191
      [] lead = 237 -> b \in 128..159
      [] lead = 240 -> b \in 144..191
      [] lead = 244 -> b \in 128..143
      [] OTHER      -> IsCont(b)

\* how many of the bytes after the lead b[1] continue its sequence (at most need)
RECURSIVE ContRun(_, _, _)
ContRun(b, k, need) ==
    IF k > need \/ k + 1 > Len(b) THEN k - 1
    ELSE IF (IF k = 1 THEN SecondOk(b[1], b[2]) ELSE IsCont(b[k + 1]))
         THEN ContRun(b, k + 1, need)
         ELSE k - 1

Utf8CodePoint(b, need) ==
    CASE need = 0 -> b[1]
      [] need = 1 -> (b[1] - 192) * 64 + (b[2] - 128)
      [] need = 2 -> (b[1] - 224) * 4096 + (b[2] - 128) * 64 + (b[3] - 128)
      [] need = 3 -> (b[1] - 240) * 262144 + (b[2] - 128) * 4096
                     + (b[3] - 128) * 64 + (b[4] - 128)

\* bytes.decode("utf-8", "replace"): every maximal invalid part becomes U+FFFD
RECURSIVE Utf8DecodeReplace(_)
Utf8DecodeReplace(b) ==
    IF b = <<>> THEN <<>>
    ELSE LET need == Utf8Need(b[1])
             run  == IF need < 0 THEN 0 ELSE ContRun(b, 1, need)
         IN  IF need >= 0 /\ run = need
             THEN <<Chr(Utf8CodePoint(b, need))>>
                  \o Utf8DecodeReplace(SubSeq(b, need + 2, Len(b)))
             ELSE <<ReplacementChar>>
                  \o Utf8DecodeReplace(SubSeq(b, run + 2, Len(b)))

\* str.encode("utf-8") of one character
Utf8EncodeChar(c) ==
    LET n == Ord(c)
    IN  IF n < 128 THEN <<n>>
        ELSE IF n < 2048 THEN <<192 + (n \div 64), 128 + (n % 64)>>
        ELSE <<224 + (n \div 4096), 128 + ((n \div 64) % 64), 128 + (n % 64)>>

RECURSIVE Utf8Encode(_)
Utf8Encode(t) ==
    IF t = <<>> THEN <<>> ELSE Utf8EncodeChar(Head(t)) \o Utf8Encode(Tail(t))

InSeq(x, s) == \E i \in 1..Len(s) : s[i] = x

\* repr() of one byte inside the quotes
ByteRepr(c, quote) ==
    IF c = 92 \/ c = Ord(quote) THEN <<"\\", Chr(c)>>
    ELSE IF c = 9 THEN <<"\\", "t">>
    ELSE IF c = 10 THEN <<"\\", "n">>
    ELSE IF c = 13 THEN <<"\\", "r">>
    ELSE IF c < 32 \/ c >= 127
         THEN <<"\\", "x", HexDigitsLower[(c \div 16) + 1], HexDigitsLower[(c % 16) + 1]>>
    ELSE <<Chr(c)>>

\* repr(bytes), which is also str(bytes): b'...' (b"..." when only ' occurs)
BytesRepr(b) ==
    LET quote == IF InSeq(39, b) /\ ~InSeq(34, b) THEN "\"" ELSE "'"
    IN  <<"b", quote>> \o Flatten([i \in 1..Len(b) |-> ByteRepr(b[i], quote)]) \o <<quote>>

\* str(object) of an object that defines __html__ but no __str__: the default repr,
\* "<module.Class object at 0x...>", abridged
ObjectRepr == <<"<", "o", "b", "j", ">">>

\* str(v)
PyStr(v) ==
    CASE v.kind \in {"str", "markup"} -> v.text
      [] v.kind = "html"  -> ObjectRepr
      [] v.kind = "bytes" -> BytesRepr(v.bytes)
      [] v.kind = "none"  -> <<"N", "o", "n", "e">>
      [] v.kind = "int"   -> IntToStr(v.n)
      [] v.kind = "bool"  -> IF v.n = 1 THEN <<"T", "r", "u", "e">>
                                        ELSE <<"F", "a", "l", "s", "e">>

\* hasattr(v, "__html__")
HasHtml(v) == v.kind \in {"markup", "html"}

\* v.__html__(): a Markup returns itself, an object its own rendering (plain text)
CallHtml(v) == IF v.kind = "markup" THEN v ELSE Str(v.text)

\* isinstance(v, str)
IsStr(v) == v.kind \in {"str", "markup"}

-----------------------------------------------------------------------------
(* Entity table and the escaper *)

Special == {"&", "<", ">", "\"", "'"}

AmpRef  == <<"&", "a", "m", "p", ";">>
LtRef   == <<"&", "l", "t", ";">>
GtRef   == <<"&", "g", "t", ";">>
QuotRef == <<"&", "q", "u", "o", "t", ";">>
AposRef == <<"&", "#", "x", "2", "7", ";">>

CoreRefs == {AmpRef, LtRef, GtRef, QuotRef, AposRef}

\* the encode side of the entity table
Entity(c) ==
    CASE c = "&"  -> AmpRef
      [] c = "<"  -> LtRef
      [] c = ">"  -> GtRef
      [] c = "\"" -> QuotRef
      [] c = "'"  -> AposRef
      [] OTHER    -> <<c>>

\* _rysafe_core.escape: one left-to-right pass, substituted output is not rescanned
RECURSIVE core_escape(_)
core_escape(t) ==
    IF t = <<>> THEN <<>> ELSE Entity(Head(t)) \o core_escape(Tail(t))

\* _rysafe_core.escape_silent on text (absent input never reaches it)
core_escape_silent(t) == core_escape(t)

\* str.replace(old, new) for a one-character old
RECURSIVE ReplaceChar(_, _, _)
ReplaceChar(t, old, new) ==
    IF t = <<>> THEN <<>>
    ELSE (IF Head(t) = old THEN new ELSE <<Head(t)>>) \o ReplaceChar(Tail(t), old, new)

\* str.replace(old, new) for a non-empty old, leftmost non-overlapping occurrences
RECURSIVE Replace(_, _, _)
Replace(t, old, new) ==
    IF t = <<>> THEN <<>>
    ELSE IF StartsAt(t, 1, old)
         THEN new \o Replace(SubSeq(t, Len(old) + 1, Len(t)), old, new)
         ELSE <<Head(t)>> \o Replace(Tail(t), old, new)

\* html.escape(s, quote=True): five successive replacements, & first
html_escape(t) ==
    LET s1 == ReplaceChar(t,  "&",  AmpRef)
        s2 == ReplaceChar(s1, "<",  LtRef)
        s3 == ReplaceChar(s2, ">",  GtRef)
        s4 == ReplaceChar(s3, "\"", QuotRef)
    IN  ReplaceChar(s4, "'", AposRef)

\* a constructor that hands back plain text instead of a Markup
Markup_new_mut_str(base) ==
    LET b == IF HasHtml(base) THEN CallHtml(base) ELSE base
    IN  Str(PyStr(b))

\* a constructor that escapes what it is given
Markup_new_mut_escape(base) ==
    LET b == IF HasHtml(base) THEN CallHtml(base) ELSE base
    IN  Mk(core_escape(PyStr(b)))

\* Markup.__new__(cls, base) with no encoding: str.__new__(cls, base)
Markup_new(base) ==
    LET b == IF HasHtml(base) THEN CallHtml(base) ELSE base
    IN  Mk(PyStr(b))

\* escape that wraps the text without substituting anything
escape_mut_raw(s) ==
    IF HasHtml(s) THEN Markup_new(CallHtml(s))
    ELSE LET t == IF s.kind = "bytes" THEN Utf8DecodeReplace(s.bytes) ELSE PyStr(s)
         IN  Markup_new(Str(t))

\* escape that does not look for __html__ and so escapes safe values again
escape_mut_nohtml(s) ==
    LET t == IF s.kind = "bytes" THEN Utf8DecodeReplace(s.bytes) ELSE PyStr(s)
    IN  Markup_new(Str(core_escape(t)))

\* escape that does not decode bytes and so escapes their repr
escape_mut_nobytes(s) ==
    IF HasHtml(s) THEN Markup_new(CallHtml(s))
    ELSE Markup_new(Str(core_escape(PyStr(s))))

\* markupsafe_compat.escape
escape(s) ==
    IF HasHtml(s) THEN Markup_new(CallHtml(s))
    ELSE LET t == IF s.kind = "bytes" THEN Utf8DecodeReplace(s.bytes) ELSE PyStr(s)
         IN  Markup_new(Str(core_escape(t)))

\* escape_silent without the None test
escape_silent_mut_nonone(s) == Markup_new(Str(core_escape_silent(PyStr(s))))

\* markupsafe_compat.escape_silent
escape_silent(s) ==
    IF s.kind = "none" THEN Markup_new(Str(<<>>))
    ELSE Markup_new(Str(core_escape_silent(PyStr(s))))

\* _escape_arg that wraps a plain argument without substituting
escape_arg_mut_noescape(a) ==
    IF HasHtml(a) THEN Markup_new(CallHtml(a)) ELSE Markup_new(Str(PyStr(a)))

\* markupsafe_compat._escape_arg
escape_arg(a) ==
    IF HasHtml(a) THEN Markup_new(CallHtml(a)) ELSE escape(a)

-----------------------------------------------------------------------------
(* The decoders *)

DecSet == {"0", "1", "2", "3", "4", "5", "6", "7", "8", "9"}
HexSet == DecSet \cup {"a", "b", "c", "d", "e", "f", "A", "B", "C", "D", "E", "F"}

DigitVal(c) ==
    IF c \in DecSet THEN (CHOOSE k \in 1..10 : DecDigits[k] = c) - 1
    ELSE IF c \in {"a", "A"} THEN 10
    ELSE IF c \in {"b", "B"} THEN 11
    ELSE IF c \in {"c", "C"} THEN 12
    ELSE IF c \in {"d", "D"} THEN 13
    ELSE IF c \in {"e", "E"} THEN 14
    ELSE 15

\* int(digits, base), saturating just above the largest code point
RECURSIVE ParseNum(_, _, _)
ParseNum(digits, base, acc) ==
    IF digits = <<>> THEN acc
    ELSE IF acc > 1114111 THEN acc
    ELSE ParseNum(Tail(digits), base, acc * base + DigitVal(Head(digits)))

\* length of the run of characters of S in t from position i on, at most cap
RECURSIVE RunLen(_, _, _, _)
RunLen(t, i, S, cap) ==
    IF cap = 0 \/ i > Len(t) \/ t[i] \notin S THEN 0
    ELSE 1 + RunLen(t, i + 1, S, cap - 1)

IsScalar(n) == n <= 1114111 /\ n \notin 55296..57343

\* the named references the core decoder recognises, with their characters
CoreNamed ==
    { <<AmpRef, "&">>, <<LtRef, "<">>, <<GtRef, ">">>, <<QuotRef, "\"">>,
      <<(<<"&", "c", "o", "p", "y", ";">>), Chr(169)>>,
      <<(<<"&", "b", "u", "l", "l", ";">>), Chr(8226)>> }

\* a complete reference at the head of t, as <<length, decoded text>>; <<0, <<>>>> if none
CoreRefAt(t) ==
    IF \E p \in CoreNamed : StartsAt(t, 1, p[1])
    THEN LET p == CHOOSE q \in CoreNamed : StartsAt(t, 1, q[1])
         IN  <<Len(p[1]), <<p[2]>>>>
    ELSE IF StartsAt(t, 1, <<"&", "#">>)
    THEN LET hex  == Len(t) >= 3 /\ t[3] \in {"x", "X"}
             from == IF hex THEN 4 ELSE 3
             run  == RunLen(t, from, IF hex THEN HexSet ELSE DecSet, Len(t))
             stop == from + run
             num  == ParseNum(SubSeq(t, from, stop - 1), IF hex THEN 16 ELSE 10, 0)
         IN  IF run >= 1 /\ stop <= Len(t) /\ t[stop] = ";" /\ IsScalar(num)
             THEN <<stop, <<Chr(num)>>>>
             ELSE <<0, <<>>>>
    ELSE <<0, <<>>>>

\* _rysafe_core.unescape: complete recognised references decode, anything else is
\* copied character for character; decoded output is not rescanned
RECURSIVE core_unescape(_)
core_unescape(t) ==
    IF t = <<>> THEN <<>>
    ELSE IF Head(t) # "&" THEN <<Head(t)>> \o core_unescape(Tail(t))
    ELSE LET r == CoreRefAt(t)
         IN  IF r[1] = 0 THEN <<"&">> \o core_unescape(Tail(t))
             ELSE r[2] \o core_unescape(SubSeq(t, r[1] + 1, Len(t)))

\* unescape that returns the text as it is
Markup_unescape_mut_id(m) == Str(m.text)

Markup_unescape_mut_markup(m) == Mk(core_unescape(m.text))

\* Markup.unescape
Markup_unescape(m) == Str(core_unescape(m.text))

\* html.entities.html5 restricted to the names the model's texts can spell
Html5 ==
    { <<(<<"a", "m", "p", ";">>), "&">>,       <<(<<"a", "m", "p">>), "&">>,
      <<(<<"l", "t", ";">>), "<">>,            <<(<<"l", "t">>), "<">>,
      <<(<<"g", "t", ";">>), ">">>,            <<(<<"g", "t">>), ">">>,
      <<(<<"q", "u", "o", "t", ";">>), "\"">>, <<(<<"q", "u", "o", "t">>), "\"">>,
      <<(<<"a", "p", "o", "s", ";">>), "'">>,
      <<(<<"c", "o", "p", "y", ";">>), Chr(169)>>, <<(<<"c", "o", "p", "y">>), Chr(169)>>,
      <<(<<"n", "o", "t", ";">>), Chr(172)>>,  <<(<<"n", "o", "t">>), Chr(172)>>,
      <<(<<"b", "u", "l", "l", ";">>), Chr(8226)>> }

InHtml5(name) == \E p \in Html5 : p[1] = name
Html5Char(name) == (CHOOSE p \in Html5 : p[1] = name)[2]

\* html._invalid_charrefs for 0x80..0x9f (windows-1252), indexed from 0x80
Cp1252 ==
    << 8364, 129, 8218, 402, 8222, 8230, 8224, 8225, 710, 8240, 352, 8249, 338, 141,
       381, 143, 144, 8216, 8217, 8220, 8221, 8226, 8211, 8212, 732, 8482, 353, 8250,
       339, 157, 382, 376 >>

\* html._invalid_codepoints
InvalidCodepoint(n) ==
    \/ n \in 1..8 \/ n = 11 \/ n \in 14..31 \/ n \in 127..159
    \/ n \in 64976..65007
    \/ (n % 65536) \in {65534, 65535}

\* html._replace_charref for a numeric reference
NumericCharref(num) ==
    IF num = 0 THEN <<ReplacementChar>>
    ELSE IF num \in 128..159 THEN <<Chr(Cp1252[num - 127])>>
    ELSE IF num \in 55296..57343 \/ num > 1114111 THEN <<ReplacementChar>>
    ELSE IF InvalidCodepoint(num) THEN <<>>
    ELSE <<Chr(num)>>

\* the longest proper prefix of s, of length x down to 2, that is an html5 name
RECURSIVE LongestPrefix(_, _)
LongestPrefix(s, x) ==
    IF x < 2 THEN 0
    ELSE IF InHtml5(SubSeq(s, 1, x)) THEN x
    ELSE LongestPrefix(s, x - 1)

\* html._replace_charref for a named reference s (the text after the &)
NamedCharref(s) ==
    IF InHtml5(s) THEN <<Html5Char(s)>>
    ELSE LET x == LongestPrefix(s, Len(s) - 1)
         IN  IF x = 0 THEN <<"&">> \o s
             ELSE <<Html5Char(SubSeq(s, 1, x))>> \o SubSeq(s, x + 1, Len(s))

NotNameChars == {"U+9", "U+10", "U+12", " ", "<", "&", "#", ";"}

\* one match of html._charref at the head of t (t[1] = "&"), as
\* <<length, replacement>>; <<0, <<>>>> when the pattern does not match
CharrefAt(t) ==
    IF Len(t) >= 2 /\ t[2] = "#"
    THEN LET dec  == RunLen(t, 3, DecSet, Len(t))
             hex  == Len(t) >= 3 /\ t[3] \in {"x", "X"}
             hrun == IF hex THEN RunLen(t, 4, HexSet, Len(t)) ELSE 0
             from == IF dec >= 1 THEN 3 ELSE 4
             run  == IF dec >= 1 THEN dec ELSE hrun
             stop == from + run
             semi == IF stop <= Len(t) /\ t[stop] = ";" THEN 1 ELSE 0
             num  == ParseNum(SubSeq(t, from, stop - 1), IF dec >= 1 THEN 10 ELSE 16, 0)
         IN  IF run >= 1 THEN <<stop - 1 + semi, NumericCharref(num)>>
             ELSE <<0, <<>>>>
    ELSE LET run  == RunLen(t, 2, { c \in {t[i] : i \in 1..Len(t)} : c \notin NotNameChars }, 32)
             stop == 2 + run
             semi == IF stop <= Len(t) /\ t[stop] = ";" THEN 1 ELSE 0
         IN  IF run >= 1
             THEN <<stop - 1 + semi, NamedCharref(SubSeq(t, 2, stop - 1 + semi))>>
             ELSE <<0, <<>>>>

\* html.unescape: _charref.sub(_replace_charref, s)
RECURSIVE html_unescape(_)
html_unescape(t) ==
    IF t = <<>> THEN <<>>
    ELSE IF Head(t) # "&" THEN <<Head(t)>> \o html_unescape(Tail(t))
    ELSE LET r == CharrefAt(t)
         IN  IF r[1] = 0 THEN <<"&">> \o html_unescape(Tail(t))
             ELSE r[2] \o html_unescape(SubSeq(t, r[1] + 1, Len(t)))

-----------------------------------------------------------------------------
(* The pure-Python fallbacks of the python_bindings package *)

\* python_bindings/rysafe: Markup.__new__(cls, content) is str.__new__(cls, content)
fb_Markup_new(content) == Mk(PyStr(content))

\* python_bindings/rysafe: escape
fb_escape(s) ==
    IF HasHtml(s) THEN fb_Markup_new(CallHtml(s))
    ELSE IF s.kind = "none" THEN fb_Markup_new(Str(<<"N", "o", "n", "e">>))
    ELSE LET text == html_escape(PyStr(s))
         IN  fb_Markup_new(Str(ReplaceChar(text, "'", AposRef)))

\* python_bindings/rysafe: escape_silent
fb_escape_silent(s) ==
    IF s.kind = "none" THEN fb_Markup_new(Str(<<>>)) ELSE fb_escape(s)

\* python_bindings/rysafe: unescape
fb_unescape(s) ==
    LET text == html_unescape(PyStr(s))
    IN  Str(Replace(text, AposRef, <<"'">>))

\* python_bindings: escape (returns plain text, or bytes for bytes)
pb_escape(s) ==
    IF HasHtml(s) THEN CallHtml(s)
    ELSE IF s.kind = "bytes"
         THEN Bytes(Utf8Encode(html_escape(Utf8DecodeReplace(s.bytes))))
    ELSE Str(html_escape(PyStr(s)))

\* escape_silent that turns None into the empty text
pb_escape_silent_mut_empty(s) == IF s.kind = "none" THEN Str(<<>>) ELSE pb_escape(s)

\* python_bindings: escape_silent
pb_escape_silent(s) == IF s.kind = "none" THEN None ELSE pb_escape(s)

\* python_bindings: unescape
pb_unescape(s) ==
    IF s.kind = "bytes"
    THEN Bytes(Utf8Encode(html_unescape(Utf8DecodeReplace(s.bytes))))
    ELSE Str(html_unescape(PyStr(s)))

-----------------------------------------------------------------------------
(* Inputs *)

NonAscii == Chr(233)

\* the pieces input texts are built from: every special character, ordinary
\* characters, and pieces of reference syntax
Tokens ==
    { <<"&">>, <<"<">>, <<">">>, <<"\"">>, <<"'">>, <<"a">>, <<";">>, <<NonAscii>>,
      LtRef, <<"&", "a", "m", "p">>, AposRef }

Texts == { Flatten(ts) : ts \in SeqsUpTo(Tokens, MaxTokens) }

\* the bytes of <, &, the apostrophe and a, the two bytes of e-acute, and a
\* byte that no UTF-8 sequence may hold
ByteVals == {60, 38, 39, 97, 195, 169, 255}

ByteSeqs == SeqsUpTo(ByteVals, MaxBytes)

Values ==
    { Str(t) : t \in Texts } \cup { Mk(t) : t \in Texts } \cup { HtmlObj(t) : t \in Texts }
    \cup { Bytes(b) : b \in ByteSeqs }
    \cup { IntVal(i) : i \in (0 - MaxInt)..MaxInt }
    \cup { None, Bool(TRUE), Bool(FALSE) }

-----------------------------------------------------------------------------
(* The escaper and decoder as a state machine: a caller holds a value arg and
   applies the functions to it, and to what they return *)

NoSelf == Mk(<<>>)

\* the operands of a call: positional ones, <<key, value>> pairs, and whether
\* the right-hand side of % is a tuple
NoArgs == [pos |-> <<>>, kw |-> <<>>, tuple |-> FALSE]

Init ==
    /\ op = "init"
    /\ arg \in Values
    /\ prev = None
    /\ res = None
    /\ self = NoSelf
    /\ args = NoArgs

\* apply a function to the input
Call(name, result) ==
    /\ op = "init"
    /\ op' = name
    /\ res' = result
    /\ UNCHANGED <<arg, prev, self, args>>

\* apply a function to the result of the call named first
Then(first, name, result) ==
    /\ op = first
    /\ op' = name
    /\ prev' = res
    /\ res' = result
    /\ UNCHANGED <<arg, self, args>>

Escape == Call("escape", escape(arg))

EscapeSilent == Call("escape_silent", escape_silent(arg))

\* escape(escape(arg))
EscapeEscaped == Then("escape", "escape.escape", escape(res))

\* escape(str(escape(arg))): the escaped text handed back as plain text
EscapeEscapedText == Then("escape", "escape.str.escape", escape(Str(PyStr(res))))

\* escape(arg).unescape()
UnescapeEscaped == Then("escape", "escape.unescape", Markup_unescape(res))

FbEscape == Call("fb_escape", fb_escape(arg))

FbUnescape == Call("fb_unescape", fb_unescape(arg))

\* unescape(escape(arg)) in python_bindings/rysafe
FbUnescapeEscaped == Then("fb_escape", "fb_escape.fb_unescape", fb_unescape(res))

FbEscapeSilent == Call("fb_escape_silent", fb_escape_silent(arg))

PbEscape == Call("pb_escape", pb_escape(arg))

PbEscapeSilent == Call("pb_escape_silent", pb_escape_silent(arg))

PbUnescape == Call("pb_unescape", pb_unescape(arg))

Next ==
    \/ Escape
    \/ EscapeSilent
    \/ EscapeEscaped
    \/ EscapeEscapedText
    \/ UnescapeEscaped
    \/ FbEscape
    \/ FbUnescape
    \/ FbUnescapeEscaped
    \/ FbEscapeSilent
    \/ PbEscape
    \/ PbEscapeSilent
    \/ PbUnescape

Spec == Init /\ [][Next]_vars

-----------------------------------------------------------------------------
(* Properties of the escaper and the decoder, checked under Spec *)

\* the reference the entity table gives each special character, written out
ExpectedRef(c) ==
    IF c = "&" THEN <<"&", "a", "m", "p", ";">>
    ELSE IF c = "<" THEN <<"&", "l", "t", ";">>
    ELSE IF c = ">" THEN <<"&", "g", "t", ";">>
    ELSE IF c = "\"" THEN <<"&", "q", "u", "o", "t", ";">>
    ELSE IF c = "'" THEN <<"&", "#", "x", "2", "7", ";">>
    ELSE <<c>>

Substituted(t) == Flatten([i \in 1..Len(t) |-> ExpectedRef(t[i])])

\* C1: escape of plain text is a Markup whose text is the input with each of
\* & < > " ' replaced by its reference, position by position, everything else
\* (non-ASCII included) copied; so no raw < > " ' remains and every & in the
\* result starts one of the five references.
C1_EscapeSubstitutes ==
    (op = "escape" /\ arg.kind = "str") =>
        /\ res.kind = "markup"
        /\ res.text = Substituted(arg.text)
        /\ \A i \in 1..Len(res.text) : res.text[i] \notin {"<", ">", "\"", "'"}
        /\ \A i \in 1..Len(res.text) :
              res.text[i] = "&" => \E r \in CoreRefs : StartsAt(res.text, i, r)

C1_Witness ==
    /\ op = "escape"
    /\ arg = Str(LtRef \o <<NonAscii>>)
    /\ res = Mk(<<"&", "a", "m", "p", ";", "l", "t", ";", NonAscii>>)

\* C3: escape of a Markup returns a Markup with exactly its text, and escape
\* of an object with __html__ returns a Markup holding that rendering, with no
\* substitution in either.
C3_NoDoubleEscape ==
    /\ (op = "escape" /\ arg.kind = "markup") => res = arg
    /\ (op = "escape" /\ arg.kind = "html") => res = Mk(arg.text)

C3_Witness ==
    /\ op = "escape"
    /\ arg = Mk(<<"<", "&">>)
    /\ res = Mk(<<"<", "&">>)

\* C4 as stated: for plain text t containing &, escape(escape(t)) differs
\* from escape(t).
C4_Original ==
    (op = "escape.escape" /\ arg.kind = "str" /\ InSeq("&", arg.text)) =>
        res.text # prev.text

\* C4 amended: for plain text t containing &, escaping the text of escape(t)
\* again as plain text gives a different text (escape(str(escape(t))) differs
\* from escape(t)), while escape applied to the Markup that escape(t) returns
\* gives it back unchanged.
C4_NotIdempotentOnText ==
    /\ (op = "escape.str.escape" /\ arg.kind = "str" /\ InSeq("&", arg.text)) =>
            /\ res.text # prev.text
            /\ res.text = Substituted(prev.text)
    /\ (op = "escape.escape" /\ arg.kind = "str") => res = prev

C4_Witness ==
    /\ op = "escape.str.escape"
    /\ arg = Str(LtRef)
    /\ prev = Mk(<<"&", "a", "m", "p", ";", "l", "t", ";">>)
    /\ res = Mk(<<"&", "a", "m", "p", ";", "a", "m", "p", ";", "l", "t", ";">>)

IsNameChar(c) == c \notin (Special \cup {";", "#", " "})

\* a complete piece of reference syntax starts somewhere in t:
\* &name;  &#digits;  &#xhex;
HasReferenceSyntax(t) ==
    \E i \in 1..Len(t) : \E j \in (i + 2)..Len(t) :
        /\ t[i] = "&"
        /\ t[j] = ";"
        /\ \/ \A k \in (i + 1)..(j - 1) : IsNameChar(t[k])
           \/ /\ t[i + 1] = "#"
              /\ j > i + 2
              /\ \A k \in (i + 2)..(j - 1) : t[k] \in DecSet
           \/ /\ t[i + 1] = "#"
              /\ j > i + 3
              /\ t[i + 2] \in {"x", "X"}
              /\ \A k \in (i + 3)..(j - 1) : t[k] \in HexSet

\* C5: for plain text with no reference syntax in it, unescaping the escaped
\* text gives the text back (Markup.unescape, and unescape of python_bindings/rysafe).
C5_RoundTrip ==
    /\ (op = "escape.unescape" /\ arg.kind = "str" /\ ~HasReferenceSyntax(arg.text)) =>
            res = Str(arg.text)
    /\ (op = "fb_escape.fb_unescape" /\ arg.kind = "str" /\ ~HasReferenceSyntax(arg.text)) =>
            res = Str(arg.text)

C5_Witness ==
    /\ op = "escape.unescape"
    /\ arg = Str(<<"'", "&">>)
    /\ prev = Mk(AposRef \o AmpRef)
    /\ res = Str(<<"'", "&">>)

C7_SilentSameAsEscape ==
    (op = "escape_silent" /\ arg.kind # "none") => res = escape(arg)

\* C8: escape of a byte sequence never fails; the result is the Markup that
\* escape gives for the UTF-8 decoding of the bytes with each invalid sequence
\* replaced by U+FFFD.
C8_BytesDecoded ==
    (op = "escape" /\ arg.kind = "bytes") =>
        /\ res.kind = "markup"
        /\ res.text = Substituted(Utf8DecodeReplace(arg.bytes))
        /\ (\A i \in 1..Len(arg.bytes) : arg.bytes[i] < 128) =>
               res.text = Substituted([i \in 1..Len(arg.bytes) |-> Chr(arg.bytes[i])])

C8_Witness ==
    /\ op = "escape"
    /\ arg = Bytes(<<60, 255>>)
    /\ res = Mk(<<"&", "l", "t", ";", ReplacementChar>>)

\* C9: escape and unescape raise TypeError for an input that is neither text
\* nor bytes (here: integers and booleans).
C9_TypeError ==
    (/\ op \in {"escape", "pb_escape", "pb_unescape", "fb_escape", "fb_unescape"}
     /\ arg.kind \in {"int", "bool"}) =>
        res = Raise("TypeError")

-----------------------------------------------------------------------------
(* Markup composition.

   The text of a Markup that takes part in composition is a sequence of
   elements [c, o]: the character c and its origin o,
     "lit"  written in a trusted Markup literal,
     "op"   brought in by an operand that is not a Markup (after whatever
            conversion the operation applied to it),
     "obj"  brought in by an object's __html__ rendering.
   The origin is bookkeeping: no operation reads it.  Plain operands hold
   plain characters. *)

Tag(t, o) == [i \in 1..Len(t) |-> [c |-> t[i], o |-> o]]

Untag(tt) == [i \in 1..Len(tt) |-> tt[i].c]

\* what an operand x adds to a result, given the value the operation turned it into
Contribution(x, converted) ==
    IF x.kind = "markup" THEN converted.text
    ELSE IF x.kind = "html" THEN Tag(converted.text, "obj")
    ELSE Tag(converted.text, "op")

\* str.join on element sequences
RECURSIVE StrJoin(_, _)
StrJoin(sep, items) ==
    IF items = <<>> THEN <<>>
    ELSE IF Len(items) = 1 THEN items[1]
    ELSE items[1] \o sep \o StrJoin(sep, Tail(items))

Ok(t)  == [ok |-> TRUE,  text |-> t,    err |-> ""]
Err(e) == [ok |-> FALSE, text |-> <<>>, err |-> e]

\* first position >= i of tpl holding character ch, 0 if none
RECURSIVE FindChar(_, _, _)
FindChar(tpl, i, ch) ==
    IF i > Len(tpl) THEN 0
    ELSE IF tpl[i].c = ch THEN i
    ELSE FindChar(tpl, i + 1, ch)

\* value of key in a sequence of <<key, text>> pairs, as <<found, text>>
RECURSIVE Lookup(_, _)
Lookup(kw, key) ==
    IF kw = <<>> THEN <<FALSE, <<>>>>
    ELSE IF kw[1][1] = key THEN <<TRUE, kw[1][2]>>
    ELSE Lookup(Tail(kw), key)

\* str.format / str.format_map from position i on.  pos: the positional
\* arguments' texts, kw: <<key, text>> pairs, auto: the next automatic index,
\* manual: an explicit index was used, mapOnly: format_map (no positional
\* fields).  Fields are {}, {index} and {name}; {{ and }} are literal braces.
RECURSIVE StrFormatFrom(_, _, _, _, _, _, _)
StrFormatFrom(tpl, i, pos, kw, auto, manual, mapOnly) ==
    IF i > Len(tpl) THEN Ok(<<>>)
    ELSE LET ch == tpl[i].c
             twin == i + 1 <= Len(tpl) /\ tpl[i + 1].c = ch
             Rest(k, a, m, piece) ==
                 LET r == StrFormatFrom(tpl, k, pos, kw, a, m, mapOnly)
                 IN  IF r.ok THEN Ok(piece \o r.text) ELSE r
         IN  IF ch \notin {"{", "}"} THEN Rest(i + 1, auto, manual, <<tpl[i]>>)
             ELSE IF twin THEN Rest(i + 2, auto, manual, <<tpl[i]>>)
             ELSE IF ch = "}" THEN Err("ValueError")
             ELSE LET j == FindChar(tpl, i + 1, "}")
                      name == IF j = 0 THEN <<>> ELSE Untag(SubSeq(tpl, i + 1, j - 1))
                  IN  IF j = 0 \/ InSeq("{", name) THEN Err("ValueError")
                      ELSE IF name = <<>>
                      THEN IF mapOnly \/ manual THEN Err("ValueError")
                           ELSE IF auto + 1 > Len(pos) THEN Err("IndexError")
                           ELSE Rest(j + 1, auto + 1, manual, pos[auto + 1])
                      ELSE IF \A k \in 1..Len(name) : name[k] \in DecSet
                      THEN IF mapOnly \/ auto > 0 THEN Err("ValueError")
                           ELSE IF ParseNum(name, 10, 0) + 1 > Len(pos) THEN Err("IndexError")
                           ELSE Rest(j + 1, auto, TRUE, pos[ParseNum(name, 10, 0) + 1])
                      ELSE LET hit == Lookup(kw, name)
                           IN  IF hit[1] THEN Rest(j + 1, auto, manual, hit[2])
                               ELSE Err("KeyError")

\* str.__mod__ from position i on, with the arguments not yet used; %s takes
\* the next argument, %% is a literal %, and the templates of the model hold
\* no other conversion
RECURSIVE StrModFrom(_, _, _)
StrModFrom(tpl, i, rest) ==
    IF i > Len(tpl) THEN (IF rest = <<>> THEN Ok(<<>>) ELSE Err("TypeError"))
    ELSE IF tpl[i].c # "%"
    THEN LET r == StrModFrom(tpl, i + 1, rest)
         IN  IF r.ok THEN Ok(<<tpl[i]>> \o r.text) ELSE r
    ELSE IF i + 1 > Len(tpl) THEN Err("ValueError")
    ELSE IF tpl[i + 1].c = "%"
    THEN LET r == StrModFrom(tpl, i + 2, rest)
         IN  IF r.ok THEN Ok(<<tpl[i]>> \o r.text) ELSE r
    ELSE IF rest = <<>> THEN Err("TypeError")
    ELSE IF tpl[i + 1].c # "s" THEN Err("ValueError")
    ELSE LET r == StrModFrom(tpl, i + 2, Tail(rest))
         IN  IF r.ok THEN Ok(Head(rest) \o r.text) ELSE r

\* self.__class__(text) for the outcome of a str method
Wrap(r) == IF r.ok THEN Markup_new(Str(r.text)) ELSE Raise(r.err)

\* __add__ that merges the operand as it is
Markup_add_mut_noescape(m, other) ==
    Markup_new(Str(m.text \o Contribution(other, other)))

\* Markup.__add__
Markup_add(m, other) ==
    LET o == IF IsStr(other)
             THEN (IF other.kind # "markup" THEN escape(other) ELSE other)
             ELSE escape(Str(PyStr(other)))
    IN  Markup_new(Str(m.text \o Contribution(other, o)))

\* __radd__ that merges the operand as it is
Markup_radd_mut_noescape(m, other) ==
    Markup_new(Str(Contribution(other, other) \o m.text))

\* Markup.__radd__: other.__add__(self) on the converted operand
Markup_radd(m, other) ==
    LET o == IF IsStr(other)
             THEN (IF other.kind # "markup" THEN escape(other) ELSE other)
             ELSE escape(Str(PyStr(other)))
    IN  Markup_new(Str(Contribution(other, o) \o m.text))

\* join that merges every item as it is
Markup_join_mut_noescape(m, seq) ==
    Markup_new(Str(StrJoin(m.text,
        [i \in 1..Len(seq) |-> Contribution(seq[i], seq[i])])))

\* Markup.join
Markup_join(m, seq) ==
    Markup_new(Str(StrJoin(m.text,
        [i \in 1..Len(seq) |-> Contribution(seq[i], escape(seq[i]))])))

\* the texts format and % insert: each argument after _escape_arg
ArgTexts(xs) == [i \in 1..Len(xs) |-> Contribution(xs[i], escape_arg(xs[i]))]

KwTexts(kw) ==
    [i \in 1..Len(kw) |-> <<kw[i][1], Contribution(kw[i][2], escape_arg(kw[i][2]))>>]

\* Markup.format(*args, **kwargs)
Markup_format(m, pos, kw) ==
    Wrap(StrFormatFrom(m.text, 1, ArgTexts(pos), KwTexts(kw),
                       0, FALSE, FALSE))

\* Markup.format_map(map_)
Markup_format_map(m, kw) ==
    Wrap(StrFormatFrom(m.text, 1, <<>>, KwTexts(kw), 0, FALSE, TRUE))

\* __mod__ that escapes only the first element of a tuple
Markup_mod_mut_first(m, xs, isTuple) ==
    LET a == IF isTuple
             THEN [i \in 1..Len(xs) |->
                     Contribution(xs[i], IF i = 1 THEN escape_arg(xs[i]) ELSE Str(PyStr(xs[i])))]
             ELSE <<Contribution(xs[1], escape_arg(xs[1]))>>
    IN  Wrap(StrModFrom(m.text, 1, a))

\* Markup.__mod__(arg): arg is the tuple xs, or the single value xs[1]
Markup_mod(m, xs, isTuple) ==
    LET a == IF isTuple THEN ArgTexts(xs)
             ELSE <<Contribution(xs[1], escape_arg(xs[1]))>>
    IN  Wrap(StrModFrom(m.text, 1, a))

-----------------------------------------------------------------------------
(* Markup composition as a state machine: the caller holds a Markup self, at
   first a trusted literal, calls a composition method on it with operands,
   and may keep the result and go on with that *)

\* the texts of the trusted literals: markup, and templates for format and %
LitTexts ==
    { <<>>, <<"<">>, <<"{", "}">>, <<"{", "k", "}">>, <<"%", "s">>,
      <<"&", "{", "0", "}">> }

\* the texts of plain operands: every special character, and text that spells
\* a placeholder
OpTexts ==
    { <<"<">>, <<">">>, <<"&">>, <<"\"">>, <<"'">>, <<"a", "<">>,
      <<"{", "}">>, <<"%", "s">> }

Literal(t) == Mk(Tag(t, "lit"))

Operands == { Str(t) : t \in OpTexts } \cup { Literal(t) : t \in LitTexts }

\* the operands of the calls that take several
ItemOperands == { Str(<<"<">>), Str(<<"'", "&">>), Literal(<<"<">>) }

KwOperands ==
    { <<>>, << <<(<<"k">>), Str(<<"\"">>)>> >>, << <<(<<"k">>), Literal(<<">">>)>> >> }

InitMarkup ==
    /\ op = "new"
    /\ self \in { Literal(t) : t \in LitTexts }
    /\ prev = None
    /\ res = self
    /\ args = NoArgs
    /\ arg = None

\* a method of the Markup the caller holds is called with operands a and
\* ends with result
Compose(name, a, result) ==
    /\ op \in {"new", "keep"}
    /\ op' = name
    /\ args' = a
    /\ res' = result
    /\ UNCHANGED <<arg, prev, self>>

\* the caller keeps the Markup a call returned (m = m + x) and goes on with it
Keep ==
    /\ op \notin {"new", "keep"}
    /\ res.kind = "markup"
    /\ Len(res.text) <= MaxLen
    /\ op' = "keep"
    /\ self' = res
    /\ args' = NoArgs
    /\ UNCHANGED <<arg, prev, res>>

One(x) == [pos |-> <<x>>, kw |-> <<>>, tuple |-> FALSE]

Add == \E x \in Operands : Compose("add", One(x), Markup_add(self, x))

RAdd == \E x \in Operands : Compose("radd", One(x), Markup_radd(self, x))

Join ==
    \E xs \in SeqsUpTo(ItemOperands, MaxItems) :
        Compose("join", [pos |-> xs, kw |-> <<>>, tuple |-> FALSE], Markup_join(self, xs))

Format ==
    \E xs \in SeqsUpTo(ItemOperands, MaxItems) : \E kw \in KwOperands :
        Compose("format", [pos |-> xs, kw |-> kw, tuple |-> FALSE],
                Markup_format(self, xs, kw))

FormatMap ==
    \E kw \in KwOperands :
        Compose("format_map", [pos |-> <<>>, kw |-> kw, tuple |-> FALSE],
                Markup_format_map(self, kw))

Mod ==
    \/ \E x \in ItemOperands :
          Compose("mod", [pos |-> <<x>>, kw |-> <<>>, tuple |-> FALSE],
                  Markup_mod(self, <<x>>, FALSE))
    \/ \E xs \in SeqsUpTo(ItemOperands, MaxItems) :
          Compose("mod", [pos |-> xs, kw |-> <<>>, tuple |-> TRUE],
                  Markup_mod(self, xs, TRUE))

NextMarkup ==
    \/ Add
    \/ RAdd
    \/ Join
    \/ Format
    \/ FormatMap
    \/ Mod
    \/ Keep

SpecMarkup == InitMarkup /\ [][NextMarkup]_vars

-----------------------------------------------------------------------------
(* Properties of Markup composition, checked under SpecMarkup *)

CompositionOps == {"add", "radd", "join", "format", "format_map", "mod"}

\* element i of tt came from a plain operand and is a raw special character:
\* one of < > " ', or an & that does not start a reference that the same
\* conversion wrote
RawFromOperand(tt, i) ==
    /\ tt[i].o = "op"
    /\ \/ tt[i].c \in {"<", ">", "\"", "'"}
       \/ /\ tt[i].c = "&"
          /\ ~ \E r \in CoreRefs :
                 /\ i + Len(r) - 1 <= Len(tt)
                 /\ \A k \in 1..Len(r) : tt[i + k - 1].c = r[k] /\ tt[i + k - 1].o = "op"

C10_Concatenation ==
    /\ (op = "add" /\ args.pos[1].kind = "str") =>
          /\ res.kind = "markup"
          /\ Untag(res.text) = Untag(self.text) \o Substituted(args.pos[1].text)
    /\ (op = "add" /\ args.pos[1].kind = "markup") =>
          /\ res.kind = "markup"
          /\ res.text = self.text \o args.pos[1].text
    /\ (op = "radd" /\ args.pos[1].kind = "str") =>
          /\ res.kind = "markup"
          /\ Untag(res.text) = Substituted(args.pos[1].text) \o Untag(self.text)
    /\ (op = "radd" /\ args.pos[1].kind = "markup") =>
          /\ res.kind = "markup"
          /\ res.text = args.pos[1].text \o self.text

C10_Witness ==
    /\ op = "radd"
    /\ Untag(self.text) = <<"<", "&", "g", "t", ";">>
    /\ args.pos = << Str(<<"a", "<">>) >>
    /\ Untag(res.text) = <<"a", "&", "l", "t", ";", "<", "&", "g", "t", ";">>

\* the text an item contributes to a join: a Markup its own text, plain text
\* its substituted form
ItemText(x) == IF x.kind = "markup" THEN Untag(x.text) ELSE Substituted(x.text)

\* C11: s.join(items) is a Markup whose text is the item texts with the text
\* of s, unescaped, between each two of them; a plain item contributes its
\* escaped form and a Markup item its own text.  With an empty s the result
\* is the concatenation.
C11_Join ==
    op = "join" =>
        /\ res.kind = "markup"
        /\ Untag(res.text) =
              IF args.pos = <<>> THEN <<>>
              ELSE ItemText(args.pos[1]) \o
                   Flatten([i \in 1..(Len(args.pos) - 1) |->
                               Untag(self.text) \o ItemText(args.pos[i + 1])])

C11_Witness ==
    /\ op = "join"
    /\ Untag(self.text) = <<"<">>
    /\ args.pos = << Str(<<"'", "&">>), Literal(<<"<">>) >>
    /\ Untag(res.text) = AposRef \o AmpRef \o <<"<", "<">>

-----------------------------------------------------------------------------
(* The decoders on reference syntax: a caller holds a text made of complete
   references, malformed ones and plain characters, and decodes it *)

\* complete references the spec and the tests name, each with its character
ValidRefs ==
    { <<(<<"&", "a", "m", "p", ";">>), "&">>,
      <<(<<"&", "l", "t", ";">>), "<">>,
      <<(<<"&", "g", "t", ";">>), ">">>,
      <<(<<"&", "q", "u", "o", "t", ";">>), "\"">>,
      <<(<<"&", "c", "o", "p", "y", ";">>), Chr(169)>>,
      <<(<<"&", "b", "u", "l", "l", ";">>), Chr(8226)>>,
      <<(<<"&", "#", "3", "9", ";">>), "'">>,
      <<(<<"&", "#", "x", "2", "7", ";">>), "'">>,
      <<(<<"&", "#", "X", "3", "c", ";">>), "<">>,
      <<(<<"&", "#", "8", "3", "6", "4", ";">>), Chr(8364)>>,
      <<(<<"&", "#", "1", "2", "8", "1", "6", "9", ";">>), Chr(128169)>>,
      <<(<<"&", "#", "1", "5", "0", ";">>), Chr(150)>> }

\* '&...' sequences that are unterminated, of unknown name, or of invalid digits
MalformedRefs ==
    { <<"&", "a", "m", "p">>,
      <<"&", "n", "o", "e", "n", "t", "i", "t", "y">>,
      <<"&", "n", "o", "t", "a", "n", "e", "n", "t", "i", "t", "y", ";">>,
      <<"&", "i", "n", "v", "a", "l", "i", "d", ";">>,
      <<"&", "#", "x", ";">>,
      <<"&", "#", "x", "G", "G", ";">>,
      <<"&", "#", "i", "n", "v", "a", "l", "i", "d", ";">> }

RefTokens == { p[1] : p \in ValidRefs } \cup MalformedRefs \cup { <<"a">>, <<";">> }

RefTexts == { Flatten(ts) : ts \in SeqsUpTo(RefTokens, MaxTokens) }

InitUnescape ==
    /\ op = "init"
    /\ arg \in { Str(t) : t \in RefTexts }
    /\ prev = None
    /\ res = None
    /\ self = NoSelf
    /\ args = NoArgs

\* Markup(arg).unescape()
MarkupUnescape == Call("unescape", Markup_unescape(Markup_new(arg)))

NextUnescape ==
    \/ MarkupUnescape
    \/ FbUnescape
    \/ PbUnescape

SpecUnescape == InitUnescape /\ [][NextUnescape]_vars

\* s is a complete reference: a name of the decode table, or &#digits; or
\* &#xhex; / &#Xhex;
IsCompleteRef(s) ==
    \/ s \in { AmpRef, LtRef, GtRef, QuotRef,
               <<"&", "c", "o", "p", "y", ";">>, <<"&", "b", "u", "l", "l", ";">> }
    \/ /\ Len(s) >= 4
       /\ s[1] = "&" /\ s[2] = "#" /\ s[Len(s)] = ";"
       /\ \/ \A k \in 3..(Len(s) - 1) : s[k] \in DecSet
          \/ /\ Len(s) >= 5
             /\ s[3] \in {"x", "X"}
             /\ \A k \in 4..(Len(s) - 1) : s[k] \in HexSet

HasCompleteRef(t) ==
    \E i \in 1..Len(t) : \E j \in i..Len(t) : IsCompleteRef(SubSeq(t, i, j))

UnescapeOps == {"unescape", "fb_unescape", "pb_unescape"}

\* C19: unescape never raises, and a '&...' sequence that is unterminated,
\* of unknown name or of invalid digits comes out exactly as written: a text
\* with no complete reference in it is returned unchanged, and a malformed
\* sequence next to a complete reference is copied while the reference decodes.
C19_MalformedPassThrough ==
    op \in UnescapeOps =>
        /\ res.kind = "str"
        /\ ~HasCompleteRef(arg.text) => res.text = arg.text
        /\ \A m \in MalformedRefs : \A p \in ValidRefs :
              /\ arg.text = m \o p[1] => res.text = m \o <<p[2]>>
              /\ arg.text = p[1] \o m => res.text = <<p[2]>> \o m

\* the characters U+0080..U+009F, which html.unescape replaces by their
\* Windows-1252 counterparts when they are written as numeric references
C1Controls == { Chr(n) : n \in 128..159 }

\* the references the decoder named by op decodes to their own code point
DecodedRefs ==
    IF op = "unescape" THEN ValidRefs
    ELSE { p \in ValidRefs : p[2] \notin C1Controls }

-----------------------------------------------------------------------------
(* The methods of Markup as a state machine: the caller holds a Markup self
   whose text is plain characters, and calls one method on it.  The texts are
   ASCII, with tab (U+9) and newline (U+10). *)

Tab == Chr(9)
Newline == Chr(10)

\* a Markup of plain characters as a composition operand, and back
Lift(v) == IF v.kind = "markup" THEN Literal(v.text) ELSE v
Plain(v) == IF v.kind = "markup" THEN Mk(Untag(v.text)) ELSE v
LiftAll(xs) == [i \in 1..Len(xs) |-> Lift(xs[i])]
LiftKw(kw) == [i \in 1..Len(kw) |-> <<kw[i][1], Lift(kw[i][2])>>]

\* python_bindings/rysafe Markup.__mod__: Markup and __html__ arguments are
\* handed to str.__mod__ as they are (%s formats them with str()), the others
\* go through escape
fb_Markup_mod(m, xs, isTuple) ==
    LET conv(x) == IF x.kind = "markup" \/ HasHtml(x) THEN Str(PyStr(x)) ELSE fb_escape(x)
        a == [i \in 1..Len(xs) |-> Tag(conv(xs[i]).text, "op")]
        r == StrModFrom(Tag(m.text, "lit"), 1, a)
    IN  IF r.ok THEN fb_Markup_new(Str(Untag(r.text))) ELSE Raise(r.err)

\* the texts of the Markup values methods are called on
MethodTexts ==
    { <<>>,
      <<"<", "{", "}", ">">>,
      <<"{", "k", "}", "&">>,
      <<"<", "%", "s", ">">>,
      <<"%", "s", "&", "%", "s">>,
      <<" ", "a", "<", "B", " ">>,
      <<"&", "l", "t", ";", ",", "b", ",">>,
      <<"a", Tab, "b", Newline>>,
      <<"-", "4">> }

\* arguments of format and %: plain text, a Markup, an object with __html__
FmtOperands == { Str(<<"<">>), Str(<<"'", "&">>), Mk(<<"<">>), HtmlObj(<<">">>) }

FmtKwOperands ==
    { <<>> } \cup { << <<(<<"k">>), v>> >> : v \in {Str(<<"\"">>), Mk(<<">">>), HtmlObj(<<"<">>)} }

InitMethods ==
    /\ op = "new"
    /\ self \in { Mk(t) : t \in MethodTexts }
    /\ prev = None
    /\ res = self
    /\ args = NoArgs
    /\ arg = None

\* a method called on the Markup the caller constructed
Method(name, a, result) == op = "new" /\ Compose(name, a, result)

MethodFormat ==
    \E xs \in SeqsUpTo(FmtOperands, MaxItems) : \E kw \in FmtKwOperands :
        Method("format", [pos |-> xs, kw |-> kw, tuple |-> FALSE],
               Plain(Markup_format(Lift(self), LiftAll(xs), LiftKw(kw))))

MethodFormatMap ==
    \E kw \in FmtKwOperands :
        Method("format_map", [pos |-> <<>>, kw |-> kw, tuple |-> FALSE],
               Plain(Markup_format_map(Lift(self), LiftKw(kw))))

MethodMod ==
    \/ \E x \in FmtOperands :
          Method("mod", [pos |-> <<x>>, kw |-> <<>>, tuple |-> FALSE],
                 Plain(Markup_mod(Lift(self), <<Lift(x)>>, FALSE)))
    \/ \E xs \in SeqsUpTo(FmtOperands, MaxItems) :
          Method("mod", [pos |-> xs, kw |-> <<>>, tuple |-> TRUE],
                 Plain(Markup_mod(Lift(self), LiftAll(xs), TRUE)))

FbMethodMod ==
    \/ \E x \in FmtOperands :
          Method("fb_mod", [pos |-> <<x>>, kw |-> <<>>, tuple |-> FALSE],
                 fb_Markup_mod(self, <<x>>, FALSE))
    \/ \E xs \in SeqsUpTo(FmtOperands, MaxItems) :
          Method("fb_mod", [pos |-> xs, kw |-> <<>>, tuple |-> TRUE],
                 fb_Markup_mod(self, xs, TRUE))

-----------------------------------------------------------------------------
(* Properties of the Markup methods, checked under SpecMethods *)

\* what formatting puts in place of a placeholder: the text of a Markup, the
\* rendering of an object with __html__, the substituted text of anything else
Inserted(x) ==
    IF x.kind \in {"markup", "html"} THEN x.text ELSE Substituted(PyStr(x))

\* the same in python_bindings/rysafe, where an object with __html__ is
\* formatted by %s as it is
FbInserted(x) ==
    IF x.kind = "markup" THEN x.text
    ELSE IF x.kind = "html" THEN PyStr(x)
    ELSE Substituted(PyStr(x))

HasField(t) == InSeq("{", t) \/ InSeq("}", t)

\* C12: format and format_map on a Markup template return a Markup in which
\* the placeholder is replaced by the escaped argument, or by the argument's
\* own text when it is a Markup or has __html__; the template's own
\* characters are copied unescaped; and unescaping the inserted segment of a
\* plain argument gives the argument back.
C12_Format ==
    /\ (op = "format" /\ self.text = <<"<", "{", "}", ">">> /\ args.pos # <<>>) =>
          /\ res = Mk(<<"<">> \o Inserted(args.pos[1]) \o <<">">>)
          /\ args.pos[1].kind = "str" =>
                Markup_unescape(Mk(SubSeq(res.text, 2, Len(res.text) - 1)))
                    = Str(args.pos[1].text)
    /\ (op \in {"format", "format_map"} /\ self.text = <<"{", "k", "}", "&">>
           /\ args.kw # <<>>) =>
          /\ res = Mk(Inserted(args.kw[1][2]) \o <<"&">>)
          /\ args.kw[1][2].kind = "str" =>
                Markup_unescape(Mk(SubSeq(res.text, 1, Len(res.text) - 1)))
                    = Str(args.kw[1][2].text)
    /\ (op \in {"format", "format_map"} /\ ~HasField(self.text)) => res = self

C12_Witness ==
    /\ op = "format"
    /\ self = Mk(<<"<", "{", "}", ">">>)
    /\ args.pos = << Str(<<"'", "&">>) >>
    /\ res = Mk(<<"<">> \o AposRef \o AmpRef \o <<">">>)

-----------------------------------------------------------------------------
(* Indexing, slicing and iteration *)

List(items)  == [kind |-> "list",  text |-> items, bytes |-> <<>>, n |-> 0]
Tuple(items) == [kind |-> "tuple", text |-> items, bytes |-> <<>>, n |-> 0]

Min(a, b) == IF a < b THEN a ELSE b
Max(a, b) == IF a > b THEN a ELSE b

\* slice.indices(n): one end of a slice with step k, clamped as CPython does;
\* dflt stands for an omitted end
SliceEnd(v, n, k, dflt) ==
    LET lower == IF k < 0 THEN 0 - 1 ELSE 0
        upper == IF k < 0 THEN n - 1 ELSE n
    IN  IF v.kind = "none" THEN dflt
        ELSE IF v.n < 0 THEN Max(v.n + n, lower)
        ELSE Min(v.n, upper)

\* the 0-based positions from i in steps of k up to, not including, stop
RECURSIVE SliceRange(_, _, _)
SliceRange(i, stop, k) ==
    IF (k > 0 /\ i >= stop) \/ (k < 0 /\ i <= stop) THEN <<>>
    ELSE <<i>> \o SliceRange(i + k, stop, k)

\* str.__getitem__(slice(start, stop, step)) for a step other than 0
StrSlice(t, start, stop, step) ==
    LET n == Len(t)
        k == IF step.kind = "none" THEN 1 ELSE step.n
        a == SliceEnd(start, n, k, IF k < 0 THEN n - 1 ELSE 0)
        b == SliceEnd(stop, n, k, IF k < 0 THEN 0 - 1 ELSE n)
        r == SliceRange(a, b, k)
    IN  [j \in 1..Len(r) |-> t[r[j] + 1]]

\* __getitem__ that escapes the slice it returns
Markup_getitem_mut_escape(m, index, isSlice) ==
    IF isSlice
    THEN IF index[3].kind = "int" /\ index[3].n = 0 THEN Raise("ValueError")
         ELSE Markup_new(Str(core_escape(StrSlice(m.text, index[1], index[2], index[3]))))
    ELSE LET i == IF index[1].n < 0 THEN index[1].n + Len(m.text) ELSE index[1].n
         IN  IF i < 0 \/ i >= Len(m.text) THEN Raise("IndexError")
             ELSE Str(<<m.text[i + 1]>>)

\* Markup.__getitem__(index): index is <<start, stop, step>> for a slice and
\* <<i>> for an integer
Markup_getitem(m, index, isSlice) ==
    IF isSlice
    THEN IF index[3].kind = "int" /\ index[3].n = 0 THEN Raise("ValueError")
         ELSE Markup_new(Str(StrSlice(m.text, index[1], index[2], index[3])))
    ELSE LET i == IF index[1].n < 0 THEN index[1].n + Len(m.text) ELSE index[1].n
         IN  IF i < 0 \/ i >= Len(m.text) THEN Raise("IndexError")
             ELSE Str(<<m.text[i + 1]>>)

\* list(Markup.__iter__()): the characters, each a str
Markup_iter(m) == List([i \in 1..Len(m.text) |-> Str(<<m.text[i]>>)])

\* ends and steps of the slices, and the integer indices
SliceEnds == { None } \cup { IntVal(i) : i \in {0 - 9, 0 - 2, 0, 1, 3, 9} }
SliceSteps == { None } \cup { IntVal(i) : i \in {0 - 2, 0 - 1, 0, 1, 2} }
Indices == { IntVal(i) : i \in {0 - 9, 0 - 2, 0 - 1, 0, 1, 3, 9} }

GetSlice ==
    \E a \in SliceEnds : \E b \in SliceEnds : \E k \in SliceSteps :
        Method("getslice", [pos |-> <<a, b, k>>, kw |-> <<>>, tuple |-> FALSE],
               Markup_getitem(self, <<a, b, k>>, TRUE))

GetItem ==
    \E i \in Indices :
        Method("getitem", One(i), Markup_getitem(self, <<i>>, FALSE))

Iter == Method("iter", NoArgs, Markup_iter(self))

\* C14: a slice of a Markup is a Markup holding exactly the characters of the
\* plain-string slice, nothing escaped again; an integer index gives a plain
\* str of one character; iterating gives the characters as plain str.
C14_SliceAndIndex ==
    /\ (op = "getslice" /\ res.kind # "raise") =>
          /\ res = Mk(StrSlice(self.text, args.pos[1], args.pos[2], args.pos[3]))
          /\ \A i \in 1..Len(res.text) : InSeq(res.text[i], self.text)
          /\ (/\ args.pos[3] \in {None, IntVal(1)}
              /\ args.pos[1].kind = "int" /\ args.pos[2].kind = "int"
              /\ 0 <= args.pos[1].n /\ args.pos[1].n <= args.pos[2].n
              /\ args.pos[2].n <= Len(self.text)) =>
                 res.text = SubSeq(self.text, args.pos[1].n + 1, args.pos[2].n)
          /\ (args.pos[1] = None /\ args.pos[2] = None /\ args.pos[3] = None) =>
                 res = self
    /\ (op = "getslice" /\ res.kind = "raise") => args.pos[3] = IntVal(0)
    /\ (op = "getitem" /\ res.kind # "raise") =>
          /\ res.kind = "str"
          /\ res.text = << self.text[IF args.pos[1].n < 0
                                     THEN Len(self.text) + args.pos[1].n + 1
                                     ELSE args.pos[1].n + 1] >>
    /\ op = "getitem" =>
          (res.kind = "raise" <=>
              (args.pos[1].n >= Len(self.text) \/ args.pos[1].n < 0 - Len(self.text)))
    /\ op = "iter" =>
          /\ res.kind = "list"
          /\ Len(res.text) = Len(self.text)
          /\ \A i \in 1..Len(res.text) : res.text[i] = Str(<<self.text[i]>>)

C14_Witness ==
    /\ op = "getslice"
    /\ self = Mk(<<"&", "l", "t", ";", ",", "b", ",">>)
    /\ args.pos = << IntVal(0), IntVal(3), None >>
    /\ res = Mk(<<"&", "l", "t">>)

-----------------------------------------------------------------------------
(* str methods that rearrange or transform text, for ASCII text *)

IsUpperChar(c) == Ord(c) \in 65..90
IsLowerChar(c) == Ord(c) \in 97..122
IsCased(c) == IsUpperChar(c) \/ IsLowerChar(c)

UpperChar(c) == IF IsLowerChar(c) THEN Chr(Ord(c) - 32) ELSE c
LowerChar(c) == IF IsUpperChar(c) THEN Chr(Ord(c) + 32) ELSE c

str_upper(t) == [i \in 1..Len(t) |-> UpperChar(t[i])]
str_lower(t) == [i \in 1..Len(t) |-> LowerChar(t[i])]
str_casefold(t) == str_lower(t)
str_swapcase(t) ==
    [i \in 1..Len(t) |-> IF IsUpperChar(t[i]) THEN LowerChar(t[i]) ELSE UpperChar(t[i])]
str_capitalize(t) ==
    [i \in 1..Len(t) |-> IF i = 1 THEN UpperChar(t[i]) ELSE LowerChar(t[i])]
str_title(t) ==
    [i \in 1..Len(t) |-> IF i > 1 /\ IsCased(t[i - 1]) THEN LowerChar(t[i])
                                                        ELSE UpperChar(t[i])]

Whitespace == {" ", Tab, Newline}

\* the characters strip removes: whitespace for None, else those of chars
StripSet(chars) ==
    IF chars.kind = "none" THEN Whitespace
    ELSE { chars.text[i] : i \in 1..Len(chars.text) }

RECURSIVE str_lstrip(_, _)
str_lstrip(t, chars) ==
    IF t # <<>> /\ Head(t) \in StripSet(chars) THEN str_lstrip(Tail(t), chars) ELSE t

RECURSIVE str_rstrip(_, _)
str_rstrip(t, chars) ==
    IF t # <<>> /\ t[Len(t)] \in StripSet(chars)
    THEN str_rstrip(SubSeq(t, 1, Len(t) - 1), chars) ELSE t

str_strip(t, chars) == str_rstrip(str_lstrip(t, chars), chars)

Pad(n, c) == [i \in 1..n |-> c]

\* str.center: the left margin gets the odd character when both the margin
\* and the width are odd
str_center(t, width, fill) ==
    LET marg == width - Len(t)
        left == (marg \div 2) + (IF marg % 2 = 1 /\ width % 2 = 1 THEN 1 ELSE 0)
    IN  IF marg <= 0 THEN t ELSE Pad(left, fill) \o t \o Pad(marg - left, fill)

str_ljust(t, width, fill) == IF width <= Len(t) THEN t ELSE t \o Pad(width - Len(t), fill)
str_rjust(t, width, fill) == IF width <= Len(t) THEN t ELSE Pad(width - Len(t), fill) \o t

str_zfill(t, width) ==
    IF width <= Len(t) THEN t
    ELSE IF t # <<>> /\ Head(t) \in {"+", "-"}
    THEN <<Head(t)>> \o Pad(width - Len(t), "0") \o Tail(t)
    ELSE Pad(width - Len(t), "0") \o t

\* str.expandtabs from column col on
RECURSIVE ExpandFrom(_, _, _)
ExpandFrom(t, tabsize, col) ==
    IF t = <<>> THEN <<>>
    ELSE IF Head(t) = Tab
    THEN LET incr == IF tabsize > 0 THEN tabsize - (col % tabsize) ELSE 0
         IN  Pad(incr, " ") \o ExpandFrom(Tail(t), tabsize, col + incr)
    ELSE IF Head(t) = Newline THEN <<Head(t)>> \o ExpandFrom(Tail(t), tabsize, 0)
    ELSE <<Head(t)>> \o ExpandFrom(Tail(t), tabsize, col + 1)

str_expandtabs(t, tabsize) == ExpandFrom(t, tabsize, 0)

\* str.translate(table): table is a sequence of <<character, value>>; a
\* character mapped to None is deleted, one mapped to a string is replaced
\* by it, one the table lacks is kept
TableHit(table, c) == { k \in 1..Len(table) : table[k][1] = <<c>> }

str_translate(t, table) ==
    Flatten([i \in 1..Len(t) |->
        IF TableHit(table, t[i]) = {} THEN <<t[i]>>
        ELSE LET v == table[CHOOSE k \in TableHit(table, t[i]) : TRUE][2]
             IN  IF v.kind = "none" THEN <<>> ELSE v.text])

\* str.__mul__(n)
str_mul(t, n) == IF n <= 0 THEN <<>> ELSE Flatten([i \in 1..n |-> t])

-----------------------------------------------------------------------------
(* The Markup methods that return self.__class__(super().method(...)) *)

\* strip that escapes what it returns
Markup_strip_mut_escape(m, chars) == Markup_new(Str(core_escape(str_strip(m.text, chars))))

Markup_mul(m, n)          == Markup_new(Str(str_mul(m.text, n.n)))
Markup_strip(m, chars)    == Markup_new(Str(str_strip(m.text, chars)))
Markup_lstrip(m, chars)   == Markup_new(Str(str_lstrip(m.text, chars)))
Markup_rstrip(m, chars)   == Markup_new(Str(str_rstrip(m.text, chars)))
Markup_capitalize(m)      == Markup_new(Str(str_capitalize(m.text)))
Markup_casefold(m)        == Markup_new(Str(str_casefold(m.text)))
Markup_lower(m)           == Markup_new(Str(str_lower(m.text)))
Markup_upper(m)           == Markup_new(Str(str_upper(m.text)))
Markup_title(m)           == Markup_new(Str(str_title(m.text)))
Markup_swapcase(m)        == Markup_new(Str(str_swapcase(m.text)))
Markup_center(m, w, fill) == Markup_new(Str(str_center(m.text, w.n, fill.text[1])))
Markup_ljust(m, w, fill)  == Markup_new(Str(str_ljust(m.text, w.n, fill.text[1])))
Markup_rjust(m, w, fill)  == Markup_new(Str(str_rjust(m.text, w.n, fill.text[1])))
Markup_zfill(m, w)        == Markup_new(Str(str_zfill(m.text, w.n)))
Markup_expandtabs(m, ts)  == Markup_new(Str(str_expandtabs(m.text, ts.n)))
Markup_translate(m, table) == Markup_new(Str(str_translate(m.text, table)))

TransformOps ==
    { "mul", "rmul", "strip", "lstrip", "rstrip", "capitalize", "casefold", "lower",
      "upper", "title", "swapcase", "center", "ljust", "rjust", "zfill", "expandtabs",
      "translate" }

\* operands of the transforming methods
Counts == { IntVal(n) : n \in {0 - 1, 0, 1, 2, 3} }
StripChars == { None, Str(<<",", "&">>), Str(<<" ", "a">>) }
Widths == { IntVal(w) : w \in {2, 6, 7} }
FillChars == { Str(<<" ">>), Str(<<"<">>) }
TabSizes == { IntVal(n) : n \in {0, 2, 8} }
Tables ==
    { << <<(<<"a">>), Str(<<"<">>)>> >>,
      << <<(<<"<">>), None>>, <<(<<"B">>), Str(<<"x", "&">>)>> >> }

\* the caller goes on with the Markup a transforming method returned
\* (m.strip().upper()); prev remembers the Markup it started from
KeepTransformed ==
    /\ op \in TransformOps
    /\ prev = None
    /\ res.kind = "markup"
    /\ Len(res.text) <= MaxLen
    /\ op' = "keep"
    /\ prev' = self
    /\ self' = res
    /\ args' = NoArgs
    /\ UNCHANGED <<arg, res>>

Two(x, y) == [pos |-> <<x, y>>, kw |-> <<>>, tuple |-> FALSE]

Mul  == \E n \in Counts : Compose("mul", One(n), Markup_mul(self, n))
\* __rmul__ = __mul__
RMul == \E n \in Counts : Compose("rmul", One(n), Markup_mul(self, n))
Strip  == \E c \in StripChars : Compose("strip", One(c), Markup_strip(self, c))
LStrip == \E c \in StripChars : Compose("lstrip", One(c), Markup_lstrip(self, c))
RStrip == \E c \in StripChars : Compose("rstrip", One(c), Markup_rstrip(self, c))
Capitalize == Compose("capitalize", NoArgs, Markup_capitalize(self))
Casefold   == Compose("casefold", NoArgs, Markup_casefold(self))
Lower      == Compose("lower", NoArgs, Markup_lower(self))
Upper      == Compose("upper", NoArgs, Markup_upper(self))
Title      == Compose("title", NoArgs, Markup_title(self))
Swapcase   == Compose("swapcase", NoArgs, Markup_swapcase(self))
Center ==
    \E w \in Widths : \E f \in FillChars :
        Compose("center", Two(w, f), Markup_center(self, w, f))
LJust ==
    \E w \in Widths : \E f \in FillChars :
        Compose("ljust", Two(w, f), Markup_ljust(self, w, f))
RJust ==
    \E w \in Widths : \E f \in FillChars :
        Compose("rjust", Two(w, f), Markup_rjust(self, w, f))
ZFill == \E w \in Widths : Compose("zfill", One(w), Markup_zfill(self, w))
Expandtabs == \E n \in TabSizes : Compose("expandtabs", One(n), Markup_expandtabs(self, n))
Translate ==
    \E tb \in Tables :
        Compose("translate", [pos |-> <<>>, kw |-> tb, tuple |-> FALSE],
                Markup_translate(self, tb))

\* the result of the plain-string operation that a transforming call names
PlainTransform ==
    LET t == self.text
        p == args.pos
    IN  CASE op \in {"mul", "rmul"} -> str_mul(t, p[1].n)
          [] op = "strip"      -> str_strip(t, p[1])
          [] op = "lstrip"     -> str_lstrip(t, p[1])
          [] op = "rstrip"     -> str_rstrip(t, p[1])
          [] op = "capitalize" -> str_capitalize(t)
          [] op = "casefold"   -> str_casefold(t)
          [] op = "lower"      -> str_lower(t)
          [] op = "upper"      -> str_upper(t)
          [] op = "title"      -> str_title(t)
          [] op = "swapcase"   -> str_swapcase(t)
          [] op = "center"     -> str_center(t, p[1].n, p[2].text[1])
          [] op = "ljust"      -> str_ljust(t, p[1].n, p[2].text[1])
          [] op = "rjust"      -> str_rjust(t, p[1].n, p[2].text[1])
          [] op = "zfill"      -> str_zfill(t, p[1].n)
          [] op = "expandtabs" -> str_expandtabs(t, p[1].n)
          [] op = "translate"  -> str_translate(t, args.kw)

\* C15: repetition, the case methods, the strip methods, the padding
\* methods, expandtabs and translate return a Markup whose text is what the
\* same str method gives for the Markup's text; no character is escaped, so
\* the case methods keep the length and the letters, repetition repeats the
\* text, stripping returns a piece of the text, padding only adds fill
\* characters, and a result holds a reference only where the text held one.
\* The same holds when the method is called on the result of another.
C15_TransformsKeepMarkup ==
    op \in TransformOps =>
        /\ res.kind = "markup"
        /\ res.text = PlainTransform
        /\ op \in {"capitalize", "casefold", "lower", "upper", "title", "swapcase"} =>
              /\ Len(res.text) = Len(self.text)
              /\ \A i \in 1..Len(res.text) : LowerChar(res.text[i]) = LowerChar(self.text[i])
        /\ op \in {"mul", "rmul"} =>
              /\ Len(res.text) = Len(self.text) * Max(args.pos[1].n, 0)
              /\ \A i \in 1..Len(res.text) :
                    res.text[i] = self.text[((i - 1) % Len(self.text)) + 1]
        /\ op \in {"strip", "lstrip", "rstrip"} =>
              \E a \in 1..(Len(self.text) + 1) : \E b \in 0..Len(self.text) :
                  res.text = SubSeq(self.text, a, b)
        /\ op \in {"center", "ljust", "rjust", "zfill"} =>
              Len(res.text) = Max(Len(self.text), args.pos[1].n)
        /\ op \in {"center", "ljust", "rjust"} => Contains(res.text, self.text)
        /\ op # "translate" =>
              \A r \in CoreRefs :
                  Contains(str_lower(res.text), r) => Contains(str_lower(self.text), r)

\* a chained call: " a<B ".strip() gave "a<B", and upper() of that gives "A<B"
C15_Witness ==
    /\ op = "upper"
    /\ prev = Mk(<<" ", "a", "<", "B", " ">>)
    /\ self = Mk(<<"a", "<", "B">>)
    /\ res = Mk(<<"A", "<", "B">>)

-----------------------------------------------------------------------------
(* Splitting and partitioning *)

Reverse(s) == [i \in 1..Len(s) |-> s[Len(s) + 1 - i]]

\* position of the first occurrence of the non-empty p in t, 0 if there is none
FirstOcc(t, p) ==
    IF \E i \in 1..Len(t) : StartsAt(t, i, p)
    THEN CHOOSE i \in 1..Len(t) :
            StartsAt(t, i, p) /\ \A j \in 1..(i - 1) : ~StartsAt(t, j, p)
    ELSE 0

\* str.split(sep, maxsplit) for a non-empty separator; a negative k is no limit
RECURSIVE SplitSep(_, _, _)
SplitSep(t, sep, k) ==
    IF k = 0 \/ FirstOcc(t, sep) = 0 THEN <<t>>
    ELSE <<SubSeq(t, 1, FirstOcc(t, sep) - 1)>> \o
         SplitSep(SubSeq(t, FirstOcc(t, sep) + Len(sep), Len(t)), sep, k - 1)

\* length of the run of non-whitespace characters at the head of t
RECURSIVE WordLen(_)
WordLen(t) == IF t = <<>> \/ Head(t) \in Whitespace THEN 0 ELSE 1 + WordLen(Tail(t))

\* str.split(None, maxsplit): split on runs of whitespace
RECURSIVE SplitWs(_, _)
SplitWs(t, k) ==
    LET u == str_lstrip(t, None)
    IN  IF u = <<>> THEN <<>>
        ELSE IF k = 0 THEN <<u>>
        ELSE <<SubSeq(u, 1, WordLen(u))>> \o SplitWs(SubSeq(u, WordLen(u) + 1, Len(u)), k - 1)

\* str.split(sep, maxsplit): the pieces, or the exception
str_split(t, sep, k) ==
    IF sep.kind = "none" THEN [ok |-> TRUE, items |-> SplitWs(t, k), err |-> ""]
    ELSE IF sep.text = <<>> THEN [ok |-> FALSE, items |-> <<>>, err |-> "ValueError"]
    ELSE [ok |-> TRUE, items |-> SplitSep(t, sep.text, k), err |-> ""]

\* str.rsplit(sep, maxsplit): split of the reversed text, turned back
str_rsplit(t, sep, k) ==
    LET rsep == IF sep.kind = "none" THEN sep ELSE Str(Reverse(sep.text))
        r == str_split(Reverse(t), rsep, k)
    IN  [ok |-> r.ok, err |-> r.err,
         items |-> [i \in 1..Len(r.items) |-> Reverse(r.items[Len(r.items) + 1 - i])]]

\* str.splitlines(keepends), for text whose only line boundary is the newline
RECURSIVE str_splitlines(_, _)
str_splitlines(t, keepends) ==
    IF t = <<>> THEN <<>>
    ELSE LET i == FirstOcc(t, <<Newline>>)
         IN  IF i = 0 THEN <<t>>
             ELSE <<SubSeq(t, 1, IF keepends THEN i ELSE i - 1)>> \o
                  str_splitlines(SubSeq(t, i + 1, Len(t)), keepends)

\* pieces that come back as plain str
MarkupList_mut_plain(r) ==
    IF r.ok THEN List([i \in 1..Len(r.items) |-> Str(r.items[i])])
    ELSE Raise(r.err)

\* self.__class__(item) for each piece
MarkupList(r) ==
    IF r.ok THEN List([i \in 1..Len(r.items) |-> Markup_new(Str(r.items[i]))])
    ELSE Raise(r.err)

\* split whose pieces stay plain str
Markup_split_mut_plain(m, sep, k) ==
    IF str_split(m.text, sep, k.n).ok
    THEN List([i \in 1..Len(str_split(m.text, sep, k.n).items) |->
                  Str(str_split(m.text, sep, k.n).items[i])])
    ELSE Raise(str_split(m.text, sep, k.n).err)

Markup_split(m, sep, k)  == MarkupList(str_split(m.text, sep, k.n))
Markup_rsplit(m, sep, k) == MarkupList(str_rsplit(m.text, sep, k.n))
Markup_splitlines(m, keepends) ==
    List([i \in 1..Len(str_splitlines(m.text, keepends.n = 1)) |->
             Markup_new(Str(str_splitlines(m.text, keepends.n = 1)[i]))])

\* Markup.partition(sep): str.partition hands back the separator object it
\* was given when it finds it, and empty plain strings when it does not
Markup_partition(m, sep) ==
    LET i == FirstOcc(m.text, sep.text)
    IN  IF sep.text = <<>> THEN Raise("ValueError")
        ELSE IF i = 0
        THEN Tuple(<<Markup_new(Str(m.text)), Str(<<>>), Markup_new(Str(<<>>))>>)
        ELSE Tuple(<<Markup_new(Str(SubSeq(m.text, 1, i - 1))), sep,
                     Markup_new(Str(SubSeq(m.text, i + Len(sep.text), Len(m.text))))>>)

\* Markup.rpartition(sep): the last occurrence
Markup_rpartition(m, sep) ==
    LET j == FirstOcc(Reverse(m.text), Reverse(sep.text))
        i == Len(m.text) - j - Len(sep.text) + 2
    IN  IF sep.text = <<>> THEN Raise("ValueError")
        ELSE IF j = 0
        THEN Tuple(<<Markup_new(Str(<<>>)), Str(<<>>), Markup_new(Str(m.text))>>)
        ELSE Tuple(<<Markup_new(Str(SubSeq(m.text, 1, i - 1))), sep,
                     Markup_new(Str(SubSeq(m.text, i + Len(sep.text), Len(m.text))))>>)

\* separators: None (whitespace), plain strings, Markup, the empty string
SplitSeps == { None, Str(<<",">>), Str(<<"<">>), Str(<<"l", "t">>), Mk(<<",">>), Str(<<>>) }
PartSeps == SplitSeps \ { None }
MaxSplits == { IntVal(k) : k \in {0 - 1, 0, 1} }

Split ==
    \E s \in SplitSeps : \E k \in MaxSplits :
        Method("split", Two(s, k), Markup_split(self, s, k))
RSplit ==
    \E s \in SplitSeps : \E k \in MaxSplits :
        Method("rsplit", Two(s, k), Markup_rsplit(self, s, k))
Splitlines ==
    \E b \in {Bool(TRUE), Bool(FALSE)} :
        Method("splitlines", One(b), Markup_splitlines(self, b))
Partition  == \E s \in PartSeps : Method("partition", One(s), Markup_partition(self, s))
RPartition == \E s \in PartSeps : Method("rpartition", One(s), Markup_rpartition(self, s))

\* the texts of a list of values
TextsOf(items) == [i \in 1..Len(items) |-> items[i].text]

\* split, rsplit and splitlines give a list of Markup whose texts are the
\* pieces of the plain-string split; with an explicit separator the pieces
\* joined by it give the text back
SplitsGiveMarkup ==
    /\ (op \in {"split", "rsplit", "splitlines"} /\ res.kind # "raise") =>
          /\ res.kind = "list"
          /\ \A i \in 1..Len(res.text) : res.text[i].kind = "markup"
    /\ (op = "split" /\ res.kind # "raise") =>
          TextsOf(res.text) = str_split(self.text, args.pos[1], args.pos[2].n).items
    /\ (op = "rsplit" /\ res.kind # "raise") =>
          TextsOf(res.text) = str_rsplit(self.text, args.pos[1], args.pos[2].n).items
    /\ (op \in {"split", "rsplit"} /\ res.kind # "raise" /\ args.pos[1] # None) =>
          StrJoin(args.pos[1].text, TextsOf(res.text)) = self.text
    /\ op = "splitlines" =>
          /\ TextsOf(res.text) = str_splitlines(self.text, args.pos[1].n = 1)
          /\ args.pos[1].n = 1 => Flatten(TextsOf(res.text)) = self.text
          /\ args.pos[1].n = 0 =>
                \A i \in 1..Len(res.text) : ~InSeq(Newline, res.text[i].text)

\* partition and rpartition give a triple whose outer elements are Markup
\* and whose three texts together are the text
PartitionOuterMarkup ==
    (op \in {"partition", "rpartition"} /\ res.kind # "raise") =>
        /\ res.kind = "tuple"
        /\ Len(res.text) = 3
        /\ res.text[1].kind = "markup"
        /\ res.text[3].kind = "markup"
        /\ res.text[1].text \o res.text[2].text \o res.text[3].text = self.text

\* C16 as stated: split, rsplit and splitlines give Markup pieces with the
\* texts of the plain split; partition and rpartition give Markup outer
\* elements and a middle element that is a plain str.
C16_Original ==
    /\ SplitsGiveMarkup
    /\ PartitionOuterMarkup
    /\ (op \in {"partition", "rpartition"} /\ res.kind # "raise") =>
          res.text[2].kind = "str"

\* C16 amended: as stated, except for the middle element of the triple: it is
\* the separator as it was passed when the text holds it (so a plain str for a
\* plain-str separator, and a Markup for a Markup separator), and the empty
\* plain str when the text does not hold it.
C16_SplitAndPartition ==
    /\ SplitsGiveMarkup
    /\ PartitionOuterMarkup
    /\ (op \in {"partition", "rpartition"} /\ res.kind # "raise") =>
          /\ res.text[2] =
                IF Contains(self.text, args.pos[1].text) THEN args.pos[1] ELSE Str(<<>>)
          /\ args.pos[1].kind = "str" => res.text[2].kind = "str"

C16_Witness ==
    /\ op = "partition"
    /\ self = Mk(<<"&", "l", "t", ";", ",", "b", ",">>)
    /\ args.pos = << Mk(<<",">>) >>
    /\ res = Tuple(<< Mk(<<"&", "l", "t", ";">>), Mk(<<",">>), Mk(<<"b", ",">>) >>)

-----------------------------------------------------------------------------
(* Replacing *)

\* str.replace(old, new, count): the leftmost non-overlapping occurrences,
\* at most k of them when k >= 0; an empty old matches before every character
\* and at the end
RECURSIVE ReplaceN(_, _, _, _)
ReplaceN(t, old, new, k) ==
    IF k = 0 THEN t
    ELSE IF old = <<>>
    THEN IF t = <<>> THEN new
         ELSE new \o <<Head(t)>> \o ReplaceN(Tail(t), old, new, k - 1)
    ELSE IF t = <<>> THEN <<>>
    ELSE IF StartsAt(t, 1, old)
    THEN new \o ReplaceN(SubSeq(t, Len(old) + 1, Len(t)), old, new, k - 1)
    ELSE <<Head(t)>> \o ReplaceN(Tail(t), old, new, k)

\* replace that escapes new before inserting it
Markup_replace_mut_escape(m, old, new, count) ==
    Markup_new(Str(ReplaceN(m.text, old.text, escape(new).text, count.n)))

\* Markup.replace(old, new, count)
Markup_replace(m, old, new, count) ==
    Markup_new(Str(ReplaceN(m.text, old.text, new.text, count.n)))

OldTexts == { Str(<<",">>), Str(<<"<">>), Str(<<"&", "l", "t", ";">>), Str(<<>>), Mk(<<"B">>) }
NewTexts == { Str(<<"<", "&">>), Str(<<"'", "\"", ">">>), Str(<<>>), Mk(<<"<">>) }

ReplaceText ==
    \E old \in OldTexts : \E new \in NewTexts : \E k \in MaxSplits :
        Method("replace", [pos |-> <<old, new, k>>, kw |-> <<>>, tuple |-> FALSE],
               Markup_replace(self, old, new, k))

-----------------------------------------------------------------------------
(* Comparing *)

\* the code point of a character of the method texts
CodePoint(c) == IF c = Tab THEN 9 ELSE IF c = Newline THEN 10 ELSE Ord(c)

\* str.__lt__: lexicographic by code point
RECURSIVE StrLess(_, _)
StrLess(a, b) ==
    IF b = <<>> THEN FALSE
    ELSE IF a = <<>> THEN TRUE
    ELSE IF Head(a) = Head(b) THEN StrLess(Tail(a), Tail(b))
    ELSE CodePoint(Head(a)) < CodePoint(Head(b))

\* __eq__ that tells a Markup from a plain string
Markup_eq_mut_kind(m, other) ==
    IF IsStr(other) THEN Bool(m.text = other.text /\ other.kind = "markup") ELSE Bool(FALSE)

\* Markup.__eq__ .. __ge__ as the operators == != < <= > >= see them:
\* str's comparison of the texts; with an operand that is not a str, == is
\* False, != is True and the orderings raise TypeError
Markup_eq(m, other) ==
    IF IsStr(other) THEN Bool(m.text = other.text) ELSE Bool(FALSE)
Markup_ne(m, other) ==
    IF IsStr(other) THEN Bool(m.text # other.text) ELSE Bool(TRUE)
Markup_lt(m, other) ==
    IF IsStr(other) THEN Bool(StrLess(m.text, other.text)) ELSE Raise("TypeError")
Markup_le(m, other) ==
    IF IsStr(other) THEN Bool(~StrLess(other.text, m.text)) ELSE Raise("TypeError")
Markup_gt(m, other) ==
    IF IsStr(other) THEN Bool(StrLess(other.text, m.text)) ELSE Raise("TypeError")
Markup_ge(m, other) ==
    IF IsStr(other) THEN Bool(~StrLess(m.text, other.text)) ELSE Raise("TypeError")

\* the values a Markup is compared with: every method text and some
\* neighbours of them, as plain str and as Markup, and an integer
CmpTexts == MethodTexts \cup { <<"-">>, <<"<">>, <<" ", "a", "<", "b", " ">>, <<"-", "4", " ">> }
CmpOperands == { Str(t) : t \in CmpTexts } \cup { Mk(t) : t \in CmpTexts } \cup { IntVal(4) }

Eq == \E x \in CmpOperands : Method("eq", One(x), Markup_eq(self, x))
Ne == \E x \in CmpOperands : Method("ne", One(x), Markup_ne(self, x))
Lt == \E x \in CmpOperands : Method("lt", One(x), Markup_lt(self, x))
Le == \E x \in CmpOperands : Method("le", One(x), Markup_le(self, x))
Gt == \E x \in CmpOperands : Method("gt", One(x), Markup_gt(self, x))
Ge == \E x \in CmpOperands : Method("ge", One(x), Markup_ge(self, x))

\* the first position where a and b differ, 0 when one is a prefix of the other
FirstDiff(a, b) ==
    IF \E i \in 1..Min(Len(a), Len(b)) : a[i] # b[i]
    THEN CHOOSE i \in 1..Min(Len(a), Len(b)) : a[i] # b[i] /\ \A j \in 1..(i - 1) : a[j] = b[j]
    ELSE 0

\* plain-string order of the texts
TextBefore(a, b) ==
    IF FirstDiff(a, b) = 0 THEN Len(a) < Len(b)
    ELSE CodePoint(a[FirstDiff(a, b)]) < CodePoint(b[FirstDiff(a, b)])

\* C18: comparing a Markup with a plain string or a Markup compares the
\* texts only: == holds exactly when the texts are equal, != exactly when
\* they differ, and < <= > >= are the plain-string order of the texts,
\* whichever of the two kinds the other operand is.
C18_CompareByText ==
    (op \in {"eq", "ne", "lt", "le", "gt", "ge"} /\ IsStr(args.pos[1])) =>
        LET x == self.text
            y == args.pos[1].text
        IN  /\ res.kind = "bool"
            /\ op = "eq" => (res.n = 1 <=> x = y)
            /\ op = "ne" => (res.n = 1 <=> x # y)
            /\ op = "lt" => (res.n = 1 <=> TextBefore(x, y))
            /\ op = "le" => (res.n = 1 <=> (TextBefore(x, y) \/ x = y))
            /\ op = "gt" => (res.n = 1 <=> TextBefore(y, x))
            /\ op = "ge" => (res.n = 1 <=> (TextBefore(y, x) \/ x = y))

C18_Witness ==
    /\ op = "eq"
    /\ self = Mk(<<"-", "4">>)
    /\ args.pos = << Str(<<"-", "4">>) >>
    /\ res = Bool(TRUE)

\* the separators a Markup is split by and joined with again
JoinSeps == { <<",">>, <<"<">>, <<"l", "t">>, <<"&">> }

\* Markup(sep).join(self.split(sep, maxsplit))
SplitJoin ==
    \E s \in JoinSeps : \E k \in MaxSplits :
        Method("split.join", Two(Str(s), k),
               Plain(Markup_join(Literal(s), LiftAll(Markup_split(self, Str(s), k).text))))

\* Markup(sep).join(self.rsplit(sep, maxsplit))
RSplitJoin ==
    \E s \in JoinSeps : \E k \in MaxSplits :
        Method("rsplit.join", Two(Str(s), k),
               Plain(Markup_join(Literal(s), LiftAll(Markup_rsplit(self, Str(s), k).text))))

\* self[:k] + self[k:]
SliceConcat ==
    \E k \in Indices :
        Method("slice.concat", One(k),
               Plain(Markup_add(Lift(Markup_getitem(self, <<None, k, None>>, TRUE)),
                                Lift(Markup_getitem(self, <<k, None, None>>, TRUE)))))

\* C30: splitting a Markup by a non-empty separator and joining the pieces
\* with Markup(sep) gives the Markup back, for split and for rsplit, and so
\* does m[:k] + m[k:] for every index k: nothing is escaped on the way.
C30_SplitJoinLossless ==
    op \in {"split.join", "rsplit.join", "slice.concat"} => res = self

\* '&lt;,b,' split by ',' into '&lt;', 'b', '' and joined again
C30_Witness ==
    /\ op = "split.join"
    /\ self = Mk(<<"&", "l", "t", ";", ",", "b", ",">>)
    /\ args = Two(Str(<<",">>), IntVal(0 - 1))
    /\ res = self

NextMethods ==
    \/ MethodFormat
    \/ MethodFormatMap
    \/ MethodMod
    \/ FbMethodMod
    \/ GetSlice
    \/ GetItem
    \/ Iter
    \/ Mul
    \/ RMul
    \/ Strip
    \/ LStrip
    \/ RStrip
    \/ Capitalize
    \/ Casefold
    \/ Lower
    \/ Upper
    \/ Title
    \/ Swapcase
    \/ Center
    \/ LJust
    \/ RJust
    \/ ZFill
    \/ Expandtabs
    \/ Translate
    \/ KeepTransformed
    \/ Split
    \/ RSplit
    \/ Splitlines
    \/ Partition
    \/ RPartition
    \/ ReplaceText
    \/ Eq
    \/ Ne
    \/ Lt
    \/ Le
    \/ Gt
    \/ Ge
    \/ SplitJoin
    \/ RSplitJoin
    \/ SliceConcat

SpecMethods == InitMethods /\ [][NextMethods]_vars


-----------------------------------------------------------------------------
(* Construction of Markup from a value, in markupsafe_compat and in the two
   fallback modules, as a state machine: a caller holds a value arg and
   constructs a Markup from it *)

\* a Markup of python_bindings: an object (no str) holding content, which is
\* text, or bytes when it was made from bytes (n = 1)
PbMk(content) ==
    [kind |-> "pbmarkup", text |-> content.text, bytes |-> content.bytes,
     n |-> IF content.kind = "bytes" THEN 1 ELSE 0]

\* the content of a python_bindings Markup (text is held as plain str here)
PbContent(m) == IF m.n = 1 THEN Bytes(m.bytes) ELSE Str(m.text)

\* python_bindings: Markup.__init__: self.content = escape(content)
pb_Markup_init(content) ==
    IF content.kind = "pbmarkup" THEN PbMk(PbContent(content))
    ELSE PbMk(pb_escape(content))

MarkupNew == Call("Markup", Markup_new(arg))

FbMarkupNew == Call("fb_Markup", fb_Markup_new(arg))

PbMarkupNew == Call("pb_Markup", pb_Markup_init(arg))

\* C21: Markup(t) for text t (plain or Markup) is a Markup with exactly the
\* text t, special characters kept raw, and Markup(o) for an object o with
\* __html__ is a Markup whose text is o.__html__().
C21_ConstructionKeepsText ==
    (op = "Markup" /\ arg.kind \in {"str", "markup", "html"}) => res = Mk(arg.text)

C21_Witness ==
    /\ op = "Markup"
    /\ arg = Str(<<"<", "&">>)
    /\ res = Mk(<<"<", "&">>)

\* C22: Markup(b) for a byte sequence b, with no encoding argument, has the
\* text of the decoded bytes.
C22_BytesDecoded ==
    (op \in {"Markup", "fb_Markup"} /\ arg.kind = "bytes") =>
        res = Mk(Utf8DecodeReplace(arg.bytes))

\* unescape(escape(arg)) in python_bindings
PbUnescapeEscaped == Then("pb_escape", "pb_escape.pb_unescape", pb_unescape(res))

\* escape(str(escape(arg))): the escaped text escaped again as plain text
FbEscapeTwice == Then("fb_escape", "fb_escape2", fb_escape(Str(PyStr(res))))

PbEscapeTwice == Then("pb_escape", "pb_escape2", pb_escape(res))

\* one unescape of the doubly escaped text
FbUnescapeOnce == Then("fb_escape2", "fb_escape2.fb_unescape", fb_unescape(res))

PbUnescapeOnce == Then("pb_escape2", "pb_escape2.pb_unescape", pb_unescape(res))

\* a second unescape
FbUnescapeTwice ==
    Then("fb_escape2.fb_unescape", "fb_escape2.fb_unescape2", fb_unescape(res))

PbUnescapeTwice ==
    Then("pb_escape2.pb_unescape", "pb_escape2.pb_unescape2", pb_unescape(res))

\* C23: in both fallback modules unescape undoes exactly one level of
\* escaping for every text t, reference syntax in t included:
\* unescape(escape(t)) is t, one unescape of the doubly escaped text is the
\* singly escaped text, and the second unescape gives t.
C23_UnescapeUndoesOneLevel ==
    /\ (op \in {"fb_escape.fb_unescape", "pb_escape.pb_unescape"} /\ arg.kind = "str") =>
            res = Str(arg.text)
    /\ (op \in {"fb_escape2.fb_unescape", "pb_escape2.pb_unescape"} /\ arg.kind = "str") =>
            res = Str(Substituted(arg.text))
    /\ (op \in {"fb_escape2.fb_unescape2", "pb_escape2.pb_unescape2"} /\ arg.kind = "str") =>
            res = Str(arg.text)

\* str + str or bytes + bytes; mixing the two raises TypeError
PbConcat(a, b) ==
    IF a.kind = "str" /\ b.kind = "str" THEN Str(a.text \o b.text)
    ELSE IF a.kind = "bytes" /\ b.kind = "bytes" THEN Bytes(a.bytes \o b.bytes)
    ELSE Raise("TypeError")

\* python_bindings: Markup.__add__: a new Markup is constructed from the
\* concatenated contents
pb_Markup_add(m, other) ==
    LET right == IF other.kind = "pbmarkup" THEN PbContent(other) ELSE pb_escape(other)
        both  == PbConcat(PbContent(m), right)
    IN  IF both.kind = "raise" THEN both ELSE pb_Markup_init(both)

\* what is added to a python_bindings Markup: plain strings, Markup values and bytes
PbOperands ==
    { Str(<<"a">>), Str(<<"<">>), Str(<<"&">>), Bytes(<<60>>),
      pb_Markup_init(Str(<<"a">>)), pb_Markup_init(Str(<<">">>)) }

\* Markup(arg) + x in python_bindings, for a Markup whose content is plain
\* text or bytes
PbMarkupAdd ==
    \E x \in PbOperands :
        /\ op = "pb_Markup"
        /\ arg.kind # "markup"
        /\ op' = "pb_Markup.add"
        /\ prev' = res
        /\ args' = One(x)
        /\ res' = pb_Markup_add(res, x)
        /\ UNCHANGED <<arg, self>>

\* C24: in python_bindings content is escaped exactly once: Markup(a) holds
\* escape(a), Markup(a) + Markup(b) holds escape(a) followed by escape(b),
\* and Markup(a) + s for a plain string s holds escape(a) followed by
\* escape(s).
C24_EscapedOnce ==
    /\ (op = "pb_Markup" /\ arg.kind = "str") =>
            res = PbMk(Str(Substituted(arg.text)))
    /\ (op = "pb_Markup.add" /\ arg.kind = "str" /\ args.pos[1].kind = "pbmarkup"
            /\ args.pos[1].n = 0) =>
            res = PbMk(Str(Substituted(arg.text) \o args.pos[1].text))
    /\ (op = "pb_Markup.add" /\ arg.kind = "str" /\ args.pos[1].kind = "str") =>
            res = PbMk(Str(Substituted(arg.text) \o Substituted(args.pos[1].text)))

\* python_bindings/fastapi_plugin: the escape defined when rysafe cannot be
\* imported: html.escape(text), which calls text.replace
fp_escape(text) ==
    IF text.kind = "bytes"
    THEN Bytes(Utf8Encode(html_escape(Utf8DecodeReplace(text.bytes))))
    ELSE IF IsStr(text) THEN [text EXCEPT !.text = html_escape(text.text)]
    ELSE Raise("AttributeError")

\* escape_silent that escapes None like any other value
fp_escape_silent_mut_nonone(text) == fp_escape(text)

\* python_bindings/fastapi_plugin: escape_silent
fp_escape_silent(text) == IF text.kind = "none" THEN None ELSE fp_escape(text)

\* get_escaper_silent() returns the escape_silent bound in fastapi_plugin:
\* the one of the package, or the module's own
FpEscapeSilent == Call("fp_escape_silent", fp_escape_silent(arg))

FpEscape == Call("fp_escape", fp_escape(arg))

\* C25: in python_bindings escape_silent(None) is None, not an empty string,
\* and for every other input escape_silent returns what escape returns; so
\* for plain text it returns the text with the five characters replaced.
C25_SilentPassesNone ==
    /\ (op \in {"pb_escape_silent", "fp_escape_silent"} /\ arg = None) => res = None
    /\ (op = "pb_escape_silent" /\ arg # None) => res = pb_escape(arg)
    /\ (op = "fp_escape_silent" /\ arg # None) => res = fp_escape(arg)
    /\ (op \in {"pb_escape_silent", "fp_escape_silent"} /\ arg.kind = "str") =>
            res = Str(Substituted(arg.text))

C25_Witness ==
    /\ op = "pb_escape_silent"
    /\ arg = None
    /\ res = None

NextConstruct ==
    \/ MarkupNew
    \/ FbMarkupNew
    \/ PbMarkupNew
    \/ PbMarkupAdd
    \/ FbEscape
    \/ PbEscape
    \/ FbUnescapeEscaped
    \/ PbUnescapeEscaped
    \/ FbEscapeTwice
    \/ PbEscapeTwice
    \/ FbUnescapeOnce
    \/ PbUnescapeOnce
    \/ FbUnescapeTwice
    \/ PbUnescapeTwice
    \/ PbEscapeSilent
    \/ FpEscapeSilent
    \/ FpEscape

SpecConstruct == Init /\ [][NextConstruct]_vars


-----------------------------------------------------------------------------
(* fastapi_integration: SafeHTMLResponse and AutoEscapeMiddleware as a state
   machine: a handler returns content arg, a response is built from it and
   the middleware's dispatch receives the response *)

HtmlType  == "text/html; charset=utf-8"
JsonType  == "application/json"
PlainType == "text/plain; charset=utf-8"

\* a response: its content-type header, its body, and whether
\* SafeHTMLResponse built it (n = 1)
Resp(contentType, body, safe) ==
    [kind |-> "response", text |-> <<contentType>>, bytes |-> body,
     n |-> IF safe THEN 1 ELSE 0]

\* render that escapes whatever it is given
SafeHTMLResponse_render_mut_always(content) ==
    Utf8Encode(escape(Str(PyStr(content))).text)

\* SafeHTMLResponse.render, with charset utf-8
SafeHTMLResponse_render(content) ==
    LET c == IF content.kind # "markup" THEN escape(content) ELSE content
    IN  Utf8Encode(PyStr(c))

\* SafeHTMLResponse.__init__; the base class's __init__ sets
\* self.body = self.render(content)
SafeHTMLResponse_init(content) ==
    LET c == IF content # None /\ content.kind # "markup" THEN escape(content)
             ELSE content
    IN  Resp(HtmlType, SafeHTMLResponse_render(c), TRUE)

\* bytes.decode("utf-8") succeeds: every sequence is complete and well formed
RECURSIVE Utf8Valid(_)
Utf8Valid(b) ==
    IF b = <<>> THEN TRUE
    ELSE LET need == Utf8Need(b[1])
             run  == IF need < 0 THEN 0 ELSE ContRun(b, 1, need)
         IN  need >= 0 /\ run = need /\ Utf8Valid(SubSeq(b, need + 2, Len(b)))

\* "text/html" in content_type
IsHtml(response) == response.text[1] = HtmlType

\* AutoEscapeMiddleware._should_escape
AutoEscapeMiddleware_should_escape(escape_paths, path, response) ==
    LET is_html == IsHtml(response)
    IN  IF escape_paths # <<>>
        THEN is_html /\ \E i \in 1..Len(escape_paths) : StartsAt(path, 1, escape_paths[i])
        ELSE is_html

\* AutoEscapeMiddleware.dispatch on the response call_next returned; hasBody
\* is hasattr(response, "body")
AutoEscapeMiddleware_dispatch(escape_paths, path, response, hasBody) ==
    IF AutoEscapeMiddleware_should_escape(escape_paths, path, response)
       /\ hasBody /\ Utf8Valid(response.bytes)
    THEN LET body == Str(Utf8DecodeReplace(response.bytes))
         IN  [response EXCEPT !.bytes = Utf8Encode(PyStr(escape(body)))]
    ELSE response

SafeResponse == Call("SafeHTMLResponse", SafeHTMLResponse_init(arg))

\* response.render(content) called once more on the content
Render ==
    /\ op = "SafeHTMLResponse"
    /\ op' = "render"
    /\ prev' = res
    /\ res' = Bytes(SafeHTMLResponse_render(arg))
    /\ UNCHANGED <<arg, self, args>>

\* a response of another class, whose body holds the content as it is
OtherResponse ==
    \E ct \in {HtmlType, JsonType, PlainType} :
        /\ arg.kind \in {"str", "markup", "bytes"}
        /\ Call("Response",
                Resp(ct, IF arg.kind = "bytes" THEN arg.bytes ELSE Utf8Encode(arg.text),
                     FALSE))

RequestPaths == { <<"/", "a", "/", "x">>, <<"/", "b">> }

EscapePaths == { <<>>, << <<"/", "a">> >>, << <<"/", "c">>, <<"/", "b">> >> }

\* the path of the request, the configured escape_paths and hasattr(response, "body")
DispatchArgs(escape_paths, path, hasBody) ==
    [pos |-> <<Str(path)>>, kw |-> escape_paths, tuple |-> hasBody]

Dispatch ==
    \E escape_paths \in EscapePaths : \E path \in RequestPaths : \E hasBody \in BOOLEAN :
        /\ op \in {"SafeHTMLResponse", "Response"}
        /\ op' = "dispatch"
        /\ prev' = res
        /\ args' = DispatchArgs(escape_paths, path, hasBody)
        /\ res' = AutoEscapeMiddleware_dispatch(escape_paths, path, res, hasBody)
        /\ UNCHANGED <<arg, self>>

NextResponse ==
    \/ SafeResponse
    \/ Render
    \/ OtherResponse
    \/ Dispatch

SpecResponse == Init /\ [][NextResponse]_vars

\* C26: SafeHTMLResponse escapes its content exactly once: the body is the
\* UTF-8 encoding of escape(c) for content c that is no Markup (for plain
\* text: of the text with the five characters replaced) and the encoding of
\* c itself for a Markup, and render gives the same bytes for c.
C26_EscapedOnce ==
    /\ (op = "SafeHTMLResponse" /\ arg.kind = "markup") =>
            res.bytes = Utf8Encode(arg.text)
    /\ (op = "SafeHTMLResponse" /\ arg.kind # "markup") =>
            res.bytes = Utf8Encode(escape(arg).text)
    /\ (op = "SafeHTMLResponse" /\ arg.kind = "str") =>
            res.bytes = Utf8Encode(Substituted(arg.text))
    /\ op = "render" => res.bytes = prev.bytes

C26_Witness ==
    /\ op = "SafeHTMLResponse"
    /\ arg = Str(<<"<">>)
    /\ res = Resp(HtmlType, <<38, 108, 116, 59>>, TRUE)

\* the path matches one of the configured escape_paths
PathMatches == \E i \in 1..Len(args.kw) : StartsAt(args.pos[1].text, 1, args.kw[i])

\* C27: a text/html response rendered by SafeHTMLResponse leaves dispatch
\* with the body it was rendered with, and a response that is not text/html,
\* or whose path matches none of the configured escape_paths, leaves it
\* unchanged.
C27_NeverReEscaped ==
    op = "dispatch" =>
        /\ prev.n = 1 => res.bytes = prev.bytes
        /\ ~IsHtml(prev) => res = prev
        /\ (args.kw # <<>> /\ ~PathMatches) => res = prev


-----------------------------------------------------------------------------
(* python_bindings/fastapi_plugin: AutoEscapeMiddleware as a state machine:
   the wrapped app emits messages one by one through the send it was given.
   self is the middleware's config, arg the request, prev the messages the
   app has emitted and res the messages delivered to the outer send *)

MaxMessages == 2

\* JSON values as json.loads returns them
JStr(t)      == [j |-> "str",  s |-> t,    items |-> <<>>]
JNum(t)      == [j |-> "num",  s |-> t,    items |-> <<>>]
JNull        == [j |-> "null", s |-> <<>>, items |-> <<>>]
JList(items) == [j |-> "list", s |-> <<>>, items |-> items]
JDict(items) == [j |-> "dict", s |-> <<>>, items |-> items]

\* JSON documents and the values they parse to
JsonDocs ==
    { <<(<<"\"", "<", "\"">>), JStr(<<"<">>)>>,
      <<(<<" ", "\"", "a", "\"">>), JStr(<<"a">>)>>,
      <<(<<"\"", NonAscii, "\"">>), JStr(<<NonAscii>>)>>,
      <<(<<"[", "\"", "&", "\"", ",", "1", "]">>),
        JList(<<JStr(<<"&">>), JNum(<<"1">>)>>)>>,
      <<(<<"{", "\"", "<", "\"", ":", "\"", "'", "\"", "}">>),
        JDict(<< <<(<<"<">>), JStr(<<"'">>)>> >>)>>,
      <<(<<"n", "u", "l", "l">>), JNull>> }

\* texts that are no JSON document
NotJson == { <<"<", "b", ">">>, <<"[", "\"", "<", "\"">>, <<"{", "\"", "a", "\"">> }

\* the bodies the app sends: the documents and the other texts in UTF-8, the
\* empty body, and bytes that are not UTF-8
Bodies ==
    { Utf8Encode(d[1]) : d \in JsonDocs } \cup { Utf8Encode(t) : t \in NotJson }
    \cup { <<>>, <<34, 255, 34>>, <<60, 195>> }

\* json.loads(text)
json_loads(text) ==
    IF \E d \in JsonDocs : d[1] = text
    THEN [ok |-> TRUE, value |-> (CHOOSE d \in JsonDocs : d[1] = text)[2], err |-> ""]
    ELSE [ok |-> FALSE, value |-> JNull, err |-> "JSONDecodeError"]

\* AutoEscapeMiddleware._escape_json_values, with the escape bound in fastapi_plugin
RECURSIVE escape_json_values(_)
escape_json_values(data) ==
    IF data.j = "str" THEN JStr(fp_escape(Str(data.s)).text)
    ELSE IF data.j = "dict"
    THEN JDict([i \in 1..Len(data.items) |->
                   <<data.items[i][1], escape_json_values(data.items[i][2])>>])
    ELSE IF data.j = "list"
    THEN JList([i \in 1..Len(data.items) |-> escape_json_values(data.items[i])])
    ELSE data

\* four hexadecimal digits
Hex4(n) ==
    << HexDigitsLower[((n \div 4096) % 16) + 1], HexDigitsLower[((n \div 256) % 16) + 1],
       HexDigitsLower[((n \div 16) % 16) + 1], HexDigitsLower[(n % 16) + 1] >>

\* one character inside a string written by json.dumps (ensure_ascii)
JsonChar(c) ==
    IF c = "\"" THEN <<"\\", "\"">>
    ELSE IF c = "\\" THEN <<"\\", "\\">>
    ELSE IF Ord(c) > 126 THEN <<"\\", "u">> \o Hex4(Ord(c))
    ELSE <<c>>

JsonString(t) == <<"\"">> \o Flatten([i \in 1..Len(t) |-> JsonChar(t[i])]) \o <<"\"">>

\* json.dumps(data)
RECURSIVE json_dumps(_)
json_dumps(data) ==
    CASE data.j = "str"  -> JsonString(data.s)
      [] data.j = "num"  -> data.s
      [] data.j = "null" -> <<"n", "u", "l", "l">>
      [] data.j = "list" ->
            <<"[">> \o StrJoin(<<",", " ">>,
                [i \in 1..Len(data.items) |-> json_dumps(data.items[i])]) \o <<"]">>
      [] data.j = "dict" ->
            <<"{">> \o StrJoin(<<",", " ">>,
                [i \in 1..Len(data.items) |->
                    JsonString(data.items[i][1]) \o <<":", " ">>
                    \o json_dumps(data.items[i][2])]) \o <<"}">>

\* the messages of a response
StartMessage == [kind |-> "message", type |-> "http.response.start", body |-> <<>>]
BodyMessage(b) == [kind |-> "message", type |-> "http.response.body", body |-> b]

Messages == {StartMessage} \cup { BodyMessage(b) : b \in Bodies }

\* _process_response_body that lets the exceptions of decoding and parsing escape
process_response_body_mut_nocatch(config, content_type, message) ==
    IF message.body # <<>> /\ InSeq(content_type, config.safe_content_types)
       /\ content_type = "application/json" /\ config.escape_json_strings
    THEN IF ~Utf8Valid(message.body) THEN Raise("UnicodeDecodeError")
         ELSE LET r == json_loads(Utf8DecodeReplace(message.body))
              IN  IF r.ok
                  THEN [message EXCEPT
                           !.body = Utf8Encode(json_dumps(escape_json_values(r.value)))]
                  ELSE Raise(r.err)
    ELSE message

\* AutoEscapeMiddleware._process_response_body: the message after the call,
\* or the exception that leaves it
process_response_body(config, content_type, message) ==
    IF message.body = <<>> \/ ~InSeq(content_type, config.safe_content_types)
    THEN message
    ELSE IF content_type = "application/json" /\ config.escape_json_strings
    THEN IF ~Utf8Valid(message.body) THEN message
         ELSE LET r == json_loads(Utf8DecodeReplace(message.body))
              IN  IF r.ok
                  THEN [message EXCEPT
                           !.body = Utf8Encode(json_dumps(escape_json_values(r.value)))]
                  ELSE message
    ELSE IF content_type \in {"text/plain", "text/html"}
    THEN [message EXCEPT
             !.body = Utf8Encode(fp_escape(Str(Utf8DecodeReplace(message.body))).text)]
    ELSE message

\* send_wrapper(message) up to the call of send; outside http the app is
\* given send itself
send_wrapper(config, request, message) ==
    IF request.type = "http" /\ message.type = "http.response.body" /\ config.auto_escape
    THEN process_response_body(config, request.content_type, message)
    ELSE message

Configs ==
    [auto_escape : BOOLEAN, escape_json_strings : BOOLEAN,
     safe_content_types : { <<"application/json", "text/plain", "text/html">>,
                            <<"text/plain">> }]

Requests ==
    [type : {"http", "websocket"},
     content_type : {"application/json", "text/plain", "text/html", ""}]

InitAsgi ==
    /\ op = "init"
    /\ self \in Configs
    /\ arg \in Requests
    /\ prev = <<>>
    /\ res = <<>>
    /\ args = NoArgs

\* the app emits one more message
AppSends ==
    \E message \in Messages :
        LET out == send_wrapper(self, arg, message)
        IN  /\ op \in {"init", "send"}
            /\ Len(prev) < MaxMessages
            /\ prev' = Append(prev, message)
            /\ IF out.kind = "raise"
               THEN op' = "raise" /\ res' = res
               ELSE op' = "send" /\ res' = Append(res, out)
            /\ UNCHANGED <<arg, self, args>>

NextAsgi == AppSends

SpecAsgi == InitAsgi /\ [][NextAsgi]_vars

\* the body a message may be rewritten to: parsing and decoding succeeded
Rewritable(message) ==
    /\ arg.type = "http"
    /\ message.type = "http.response.body"
    /\ self.auto_escape
    /\ message.body # <<>>
    /\ InSeq(arg.content_type, self.safe_content_types)

\* the body is JSON to be escaped, and it does not decode or does not parse
ParseFails(message) ==
    /\ Rewritable(message)
    /\ arg.content_type = "application/json"
    /\ self.escape_json_strings
    /\ \/ message.body \in { <<34, 255, 34>>, <<60, 195>> }
       \/ message.body \in { Utf8Encode(t) : t \in NotJson }

-----------------------------------------------------------------------------
(* Markup concatenation with an operand of any type: a caller holds a value
   arg and adds it to a Markup self, on either side *)

\* python_bindings/rysafe: Markup.__add__
fb_Markup_add(m, other) ==
    IF other.kind = "markup" THEN fb_Markup_new(Str(m.text \o other.text))
    ELSE IF HasHtml(other) THEN fb_Markup_new(Str(m.text \o CallHtml(other).text))
    ELSE fb_Markup_new(Str(m.text \o fb_escape(other).text))

\* the Markup values an operand is added to
ConcatTexts == { <<>>, <<"<">>, <<"a", "&">> }

\* self + arg
AddOperand ==
    \E t \in ConcatTexts :
        /\ op = "init"
        /\ op' = "add"
        /\ self' = Mk(t)
        /\ res' = Plain(Markup_add(Literal(t), Lift(arg)))
        /\ UNCHANGED <<arg, prev, args>>

\* arg + self, which calls self.__radd__(arg)
RAddOperand ==
    \E t \in ConcatTexts :
        /\ op = "init"
        /\ op' = "radd"
        /\ self' = Mk(t)
        /\ res' = Plain(Markup_radd(Literal(t), Lift(arg)))
        /\ UNCHANGED <<arg, prev, args>>

\* self + arg in python_bindings/rysafe
FbAddOperand ==
    \E t \in ConcatTexts :
        /\ op = "init"
        /\ op' = "fb_add"
        /\ self' = Mk(t)
        /\ res' = fb_Markup_add(Mk(t), arg)
        /\ UNCHANGED <<arg, prev, args>>

NextConcat ==
    \/ AddOperand
    \/ RAddOperand
    \/ FbAddOperand

SpecConcat == Init /\ [][NextConcat]_vars

\* C29: for every operand x (plain text, Markup, an object with __html__,
\* bytes, None, a number) m + x is m + escape(x) and x + m is escape(x) + m;
\* so an operand with __html__ is merged as its own rendering, unchanged.
C29_AddTreatsOperandAsEscape ==
    /\ op = "add" => res = Mk(self.text \o escape(arg).text)
    /\ op = "radd" => res = Mk(escape(arg).text \o self.text)
    /\ op = "fb_add" => res = Mk(self.text \o fb_escape(arg).text)
    /\ (op \in {"add", "fb_add"} /\ arg.kind = "html") => res = Mk(self.text \o arg.text)

=============================================================================
